---- MODULE Spec2Model ----
(***************************************************************************)
(* A model of the transactional core of simpledb-py: the lock table and    *)
(* per-transaction concurrency manager (tx/concurrency.py), the buffer     *)
(* pool (buffer.py), the log manager (log.py), the recovery manager and    *)
(* its log records (tx/recovery.py) and Transaction (tx/transaction.py).   *)
(*                                                                         *)
(* Every Transaction object is owned by one thread.  An operation that     *)
(* runs under a monitor (the lock table's or the buffer pool's condition   *)
(* variable, the log manager's lock) is one step.  Code that touches       *)
(* shared state outside every monitor is cut into its reads and writes:    *)
(* LockTable.unlock (read of the count, then the store or the pop) and     *)
(* LogManager._flush called through LogManager.flush or __iter__ (the      *)
(* block write, then the store of the saved LSN).                          *)
(*                                                                         *)
(* A thread that waits in a monitor changes nothing while it waits, so a   *)
(* wait is a disabled guard; its timeout is the step that raises           *)
(* LockAbortError while the conflict is still there.                       *)
(***************************************************************************)
EXTENDS Integers, Sequences, FiniteSets, TLC

\* ------------------------------------------------------------------ bounds
NumTx == 3          \* Transaction objects that are ever constructed
NumBlocks == 3      \* data blocks 0 .. NumBlocks-1 of the one data file
MaxTxBlocks == 2    \* blocks 0 .. MaxTxBlocks-1 are those the transactions pin and append
NumBuffers == 2     \* frames of the buffer pool (BufferManager num_buffers)
MaxVal == 1         \* integers written are 0 .. MaxVal
MaxPins == 2        \* pins one transaction takes on one block
MaxLog == 7         \* log records after which no new work is started
MaxCrashes == 1     \* restarts of the process
MaxOps == 2         \* pin/unpin/get/set/size/append calls of one transaction
MaxOpsFlush == 3    \* SpecFlush: pin/set calls of one transaction
MaxOpsEvict == 5    \* SpecEvict: pin/unpin/set calls of the client
MaxOpsPool == 4     \* SpecPool: pin/unpin/set_modified calls of one client
MaxActive == 2      \* transactions that are between construction and their end
MaxWorkers == 1     \* Spec: transactions that issue calls (the others only begin and end)
MaxPair == 2        \* SpecPair: transactions, all of them issuing calls
LogBlockSize == 64  \* block_size of the file manager, in bytes
MaxRawAppends == 4  \* SpecLog: LogManager.append calls of the client
ShortRec == 8       \* SpecLog: length of a short log record, in bytes
LongRec == 28       \* SpecLog: length of a long log record, in bytes
FmBlockSize == 2    \* SpecFile: block_size of the file manager, in bytes
MaxFileBlocks == 3  \* SpecFile: blocks the file grows to
PageSize == 8       \* SpecPage: size of the page, in bytes
MaxPageOps == 2     \* SpecPage: calls on the page
RpBlockSize == 18   \* SpecRecord, SpecTable: block_size of the table's file, in bytes
MaxTableBlocks == 3 \* SpecTable: blocks the table grows to
MaxInserts == 5     \* SpecTable: insert() calls on the table

\* ------------------------------------------------- constants of the program
EOF == -1           \* Transaction.END_OF_FILE, the sentinel block number
NoBlk == -2         \* Buffer._block_id is None
StrFieldLen == 1    \* SpecFields: declared length of the string field B
FlagEmpty == 0      \* RecordPage.EMPTY
FlagUsed == 1       \* RecordPage.USED
FileNameLen == 8    \* len("testfile"), the data file of the tests

Txs == 1 .. NumTx
Blocks == 0 .. (NumBlocks - 1)
TxBlocks == 0 .. (MaxTxBlocks - 1)
LockBlocks == {EOF} \cup Blocks
Frames == 1 .. NumBuffers
Offsets == {0}
Values == 0 .. MaxVal
ZeroPage == [o \in Offsets |-> 0]

VARIABLES
  next_txnum,   \* Transaction._next_txnum, the class attribute
  st,           \* st[t]: where transaction t's thread is
  mode,         \* mode[t]: the terminal operation t is in or has finished
  txnum,        \* Transaction._txnum
  cmLocks,      \* ConcurrencyManager._locks: sequence of [b, m], insertion order
  pins,         \* BufferList._pins: pins[t][b] = occurrences of b in the list
  locks,        \* LockTable._locks: 0 = no entry
  uval,         \* unlock's local val, between its read and its write
  pend,         \* flush_all's frame between Buffer.flush's write and its _txnum = -1
  relIdx,       \* release's position in cmLocks[t]
  it,           \* the log iterator of rollback/recover: next index to read
  fin,          \* _do_recover's finished_txs
  cont,         \* where the thread goes on after LogManager._flush
  frames,       \* BufferManager._buffer_pool
  numAvailable, \* BufferManager._num_available
  disk,         \* the data file: disk[b] is block b's page
  fileLen,      \* FileManager.length of the data file
  log,          \* every log record appended and not lost, oldest first
  diskLen,      \* how many records of log are in the log file on disk
  curStart,     \* how many records lie in log blocks before the current one
  latestLsn,    \* LogManager._latest_lsn
  lastSavedLsn, \* LogManager._lagest_saved_lsn
  lsnBase,      \* records of log written before the last restart
  crashes,      \* restarts so far
  aborted,      \* aborted[t]: an operation of t raised LockAbort/BufferAbort
  orig,         \* orig[t][b][o]: value before t's first logged write, or -1
  wrote,        \* wrote[t][b][o]: value t last stored there (set_int or undo), or -1
  nops,         \* nops[t]: operations t has called before its terminal one
  early,        \* a data block was written before the log records up to its frame's LSN
  lm,           \* a LogManager used on its own: _log_page, _current_block, _latest_lsn, _lagest_saved_lsn
  logFile,      \* its log file: the blocks on disk, block k at index k + 1
  liter,        \* its client's LogIterator: _block_id, _page, _current_position, records returned
  appended,     \* the records its client appended, oldest first, and where append put them
  want,         \* want[c]: the block thread c waits for inside BufferManager.pin, or NoBlk
  fmBytes,      \* a file of a FileManager used on its own: its bytes on disk
  fmLock,       \* FileManager._lock: the client holding it, or 0
  fmPc,         \* fmPc[c]: where client c is inside FileManager.append
  fmNew,        \* fmNew[c]: append's local new_block_number
  fmPrev,       \* fmPrev[c]: the length of the file when c's append took the lock
  fmRet,        \* the block numbers the append calls returned, in order of return
  fmPage,       \* fmPage[c]: client c's page
  pg,           \* a Page used on its own: its _byte_buffer
  pgLast,       \* the last call on it: its arguments and its outcome
  pgOps,        \* calls made on it
  tbl,          \* a table file used by one transaction: its blocks, block k at index k + 1
  ts,           \* the TableScan on it: its layout's slot size, _record_page's block, _current_slot
  tsCall,       \* the TableScan call in progress, the blocks it appended, its result
  tsIns,        \* the record identifiers insert() stopped on, in order of the calls
  tsScan,       \* the scan since before_first(): the identifiers next() stopped on
  tsPure,       \* no delete() was called on the table
  rpLast,       \* the last RecordPage call: its argument, its result, the page before it
  ltSt,         \* ltSt[c]: where thread c is in the lock table: idle, in a wait, in unlock
  ltHeld,       \* ltHeld[c]: the lock c's concurrency manager records on the block
  ltVal,        \* ltVal[c]: unlock's local val
  ltWoken,      \* ltWoken[c]: notify_all reached c's wait
  ltLate        \* ltLate[c]: c's last wait ended by its timeout

vars == <<next_txnum, st, mode, txnum, cmLocks, pins, locks, uval, pend, relIdx, it,
          fin, cont, frames, numAvailable, disk, fileLen, log, diskLen,
          curStart, latestLsn, lastSavedLsn, lsnBase, crashes, aborted, orig,
          wrote, nops, early, lm, logFile, liter, appended, want,
          fmBytes, fmLock, fmPc, fmNew, fmPrev, fmRet, fmPage, pg, pgLast, pgOps,
          tbl, ts, tsCall, tsIns, tsScan, tsPure, rpLast,
          ltSt, ltHeld, ltVal, ltWoken, ltLate>>

\* The state of the clients that drive the log manager or the buffer manager
\* directly, apart from the transactions.
rawLogVars == <<lm, logFile, liter, appended>>
fileVars == <<fmBytes, fmLock, fmPc, fmNew, fmPrev, fmRet, fmPage>>
pageVars == <<pg, pgLast, pgOps>>
recVars == <<tbl, ts, tsCall, tsIns, tsScan, tsPure, rpLast>>
waitVars == <<ltSt, ltHeld, ltVal, ltWoken, ltLate>>
extVars == <<fileVars, pageVars, recVars, waitVars>>
unitVars == <<rawLogVars, want, extVars>>
coreVars == <<next_txnum, st, mode, txnum, cmLocks, pins, locks, uval, pend, relIdx, it,
              fin, cont, frames, numAvailable, disk, fileLen, log, diskLen,
              curStart, latestLsn, lastSavedLsn, lsnBase, crashes, aborted, orig,
              wrote, nops, early>>

coreButLocks == <<next_txnum, st, mode, txnum, cmLocks, pins, uval, pend, relIdx, it,
                  fin, cont, frames, numAvailable, disk, fileLen, log, diskLen,
                  curStart, latestLsn, lastSavedLsn, lsnBase, crashes, aborted, orig,
                  wrote, nops, early>>

txVars == <<st, mode, txnum, cmLocks, pins, uval, pend, relIdx, it, fin, cont, aborted>>
ghostVars == <<orig, wrote>>
logVars == <<log, diskLen, curStart, latestLsn, lastSavedLsn, lsnBase>>
poolVars == <<frames, numAvailable, disk, fileLen, early>>

Max(a, b) == IF a >= b THEN a ELSE b

\* ---------------------------------------------------------------- LockTable
LT_has_xlock(L, b) == L[b] < 0
LT_has_other_slocks(L, b) == L[b] > 1
LT_slock(L, b) == [L EXCEPT ![b] = @ + 1]
LT_xlock(L, b) == [L EXCEPT ![b] = -1]

\* ------------------------------------------------------- ConcurrencyManager
Holds(C, b) == \E i \in DOMAIN C : C[i].b = b
CM_has_xlock(C, b) == \E i \in DOMAIN C : C[i].b = b /\ C[i].m = "X"
HeldBlocks(C) == {C[i].b : i \in DOMAIN C}
SetMode(C, b, m) == [i \in DOMAIN C |-> IF C[i].b = b THEN [b |-> b, m |-> m] ELSE C[i]]

\* slock: res = "wait" when the lock table makes the caller wait.
CM_slock(L, C, b) ==
  IF Holds(C, b) THEN [res |-> "ok", L |-> L, C |-> C]
  ELSE IF LT_has_xlock(L, b) THEN [res |-> "wait", L |-> L, C |-> C]
  ELSE [res |-> "ok", L |-> LT_slock(L, b), C |-> Append(C, [b |-> b, m |-> "S"])]

\* An xlock that gives its S lock back when the upgrade has to wait.
CM_xlock_GiveUp(L, C, b) ==
  IF CM_has_xlock(C, b) THEN [res |-> "ok", L |-> L, C |-> C]
  ELSE LET s == CM_slock(L, C, b) IN
       IF s.res = "wait" THEN s
       ELSE IF LT_has_other_slocks(s.L, b)
            THEN [res |-> "wait", L |-> [s.L EXCEPT ![b] = @ - 1],
                  C |-> SelectSeq(s.C, LAMBDA e : e.b # b)]
       ELSE [res |-> "ok", L |-> LT_xlock(s.L, b), C |-> SetMode(s.C, b, "X")]

\* xlock: slock if needed, then the upgrade; an S lock taken on the way stays.
CM_xlock(L, C, b) ==
  IF CM_has_xlock(C, b) THEN [res |-> "ok", L |-> L, C |-> C]
  ELSE LET s == CM_slock(L, C, b) IN
       IF s.res = "wait" THEN s
       ELSE IF LT_has_other_slocks(s.L, b) THEN [res |-> "wait", L |-> s.L, C |-> s.C]
       ELSE [res |-> "ok", L |-> LT_xlock(s.L, b), C |-> SetMode(s.C, b, "X")]

\* ------------------------------------------------------------- log records
IsSet(r) == r.op \in {"SETINT", "SETSTRING"}
RecSize(r) ==
  CASE r.op = "CHECKPOINT" -> 4
    [] r.op \in {"START", "COMMIT", "ROLLBACK"} -> 8
    [] r.op = "SETINT" -> 8 + (4 + FileNameLen) + 12
    [] OTHER -> 8 + (4 + FileNameLen) + 8 + 4

\* by and new are not bytes of the record: who appended it, and the value the
\* caller then stored in the page.
Rec(op, n, b, o, old, by, new) ==
  [op |-> op, txnum |-> n, blk |-> b, off |-> o, old |-> old, by |-> by, new |-> new]
PlainRec(op, n, by) == Rec(op, n, NoBlk, 0, 0, by, 0)

\* The log manager's state as one record, for the operators below.
LogState == [log |-> log, diskLen |-> diskLen, curStart |-> curStart,
             latestLsn |-> latestLsn, lastSavedLsn |-> lastSavedLsn]

RECURSIVE BytesOf(_, _, _)
BytesOf(lg, from, to) ==
  IF from > to THEN 0 ELSE RecSize(lg[from]) + 4 + BytesOf(lg, from + 1, to)

\* boundary of the in-memory log page: block_size minus the bytes in use.
Boundary(g) == LogBlockSize - BytesOf(g.log, g.curStart + 1, Len(g.log))

\* LogManager._flush, in one piece (as it runs inside append, under the lock).
LM_flush_all(g) == [g EXCEPT !.diskLen = Len(g.log), !.lastSavedLsn = g.latestLsn]

\* LogManager.flush(lsn), in one piece (as it runs inside Buffer.flush).
LM_flush(g, lsn) == IF lsn >= g.lastSavedLsn THEN LM_flush_all(g) ELSE g

\* An append that gives the first record of a new log block the LSN of the
\* record before it.
LM_append_Stall(g, r) ==
  LET fresh == Boundary(g) - (RecSize(r) + 4) < 4
      g1 == IF fresh THEN [LM_flush_all(g) EXCEPT !.curStart = Len(g.log)] ELSE g
  IN [g1 EXCEPT !.log = Append(g.log, r),
                !.latestLsn = IF fresh THEN g.latestLsn ELSE g.latestLsn + 1]

\* LogManager.append
LM_append(g, r) ==
  LET g1 == IF Boundary(g) - (RecSize(r) + 4) < 4
            THEN [LM_flush_all(g) EXCEPT !.curStart = Len(g.log)]
            ELSE g
  IN [g1 EXCEPT !.log = Append(g.log, r), !.latestLsn = g.latestLsn + 1]

\* ------------------------------------------------------------- Page (bytes)
\* A page is its byte buffer: block_size bytes, the byte at offset o at
\* index o + 1.
ByteOffsets == 0 .. (LogBlockSize - 1)
ZeroBytes == [i \in 1 .. LogBlockSize |-> 0]

\* struct.pack(">i", v) and struct.unpack(">i", ...)
PackInt(v) ==
  <<(v \div 16777216) % 256, (v \div 65536) % 256, (v \div 256) % 256, v % 256>>
UnpackInt(b) ==
  (IF b[1] >= 128 THEN b[1] - 256 ELSE b[1]) * 16777216 + b[2] * 65536 + b[3] * 256 + b[4]

\* Page.get_int / set_int at an offset with off >= 0 and off + 4 <= block_size
Page_get_int(p, off) == UnpackInt(SubSeq(p, off + 1, off + 4))
Page_set_int(p, off, v) ==
  [i \in 1 .. LogBlockSize |-> IF off < i /\ i <= off + 4 THEN PackInt(v)[i - off] ELSE p[i]]

\* Page.set_bytes: the length, then the bytes (off >= 0, the extent inside the page)
Page_set_bytes(p, off, b) ==
  LET q == Page_set_int(p, off, Len(b))
  IN [i \in 1 .. LogBlockSize |->
        IF off + 4 < i /\ i <= off + 4 + Len(b) THEN b[i - off - 4] ELSE q[i]]

\* Page.get_bytes: the slice [start : start + length] ends where the buffer ends
Page_get_bytes(p, off) ==
  LET n == Page_get_int(p, off)
      stop == IF off + 4 + n > LogBlockSize THEN LogBlockSize ELSE off + 4 + n
  IN SubSeq(p, off + 5, stop)

\* ------------------------------------------- Page at any integer offset
\* A Python slice bound i on a buffer of n bytes
SliceBound(n, i) == IF i < 0 THEN Max(n + i, 0) ELSE IF i > n THEN n ELSE i

\* buf[a : b]
Slice(p, a, b) == SubSeq(p, SliceBound(Len(p), a) + 1, SliceBound(Len(p), b))

\* buf[a : b] = w: the bytes of the slice are replaced by w, whatever their number
SliceAssign(p, a, b, w) ==
  LET lo == SliceBound(Len(p), a)
      hi == Max(SliceBound(Len(p), b), lo)
  IN SubSeq(p, 1, lo) \o w \o SubSeq(p, hi + 1, Len(p))

\* Page.set_int; struct.pack fails outside the 32-bit range
Try_set_int(p, off, v) ==
  IF Len(p) < off + 4 \/ v > 2147483647 \/ v < -2147483647 - 1
  THEN [err |-> TRUE, page |-> p]
  ELSE [err |-> FALSE, page |-> SliceAssign(p, off, off + 4, PackInt(v))]

\* Page.set_bytes
Try_set_bytes(p, off, b) ==
  IF Len(p) < off + 4 + Len(b)
  THEN [err |-> TRUE, page |-> p]
  ELSE LET r == Try_set_int(p, off, Len(b))
       IN IF r.err THEN r
          ELSE [err |-> FALSE,
                page |-> SliceAssign(r.page, off + 4, off + 4 + Len(b), b)]

\* str.encode("ascii") and bytes.decode("ascii"): characters and bytes below 128
Ascii(s) == \A i \in DOMAIN s : s[i] < 128

\* Page.set_string
Try_set_string(p, off, str) ==
  IF ~Ascii(str) THEN [err |-> TRUE, page |-> p] ELSE Try_set_bytes(p, off, str)

\* Page.get_int; struct.unpack fails unless the slice has 4 bytes
Try_get_int(p, off) ==
  IF Len(p) <= off \/ Len(Slice(p, off, off + 4)) # 4
  THEN [err |-> TRUE, val |-> 0]
  ELSE [err |-> FALSE, val |-> UnpackInt(Slice(p, off, off + 4))]

\* Page.get_bytes
Try_get_bytes(p, off) ==
  IF Try_get_int(p, off).err
  THEN [err |-> TRUE, val |-> << >>]
  ELSE [err |-> FALSE,
        val |-> Slice(p, off + 4, off + 4 + Try_get_int(p, off).val)]

\* Page.get_string
Try_get_string(p, off) ==
  IF Try_get_bytes(p, off).err \/ ~Ascii(Try_get_bytes(p, off).val)
  THEN [err |-> TRUE, val |-> << >>]
  ELSE Try_get_bytes(p, off)

\* The record of a call: the operation, its offset, the end of the extent it
\* asks for, the length of the buffer before it, whether it raised and
\* whether it changed the buffer.
NoCall == [op |-> "none", off |-> 0, end |-> 0, len |-> 0, err |-> FALSE, changed |-> FALSE]
Call(op, off, end, before, err, after) ==
  [op |-> op, off |-> off, end |-> end, len |-> Len(before), err |-> err,
   changed |-> after # before]

\* --------------------------------------------------- RecordPage, TableScan
\* A layout is its slot size ss: the flag, then an integer field when
\* ss >= 8, then a string field when ss >= 12.
ZeroRecordBlock == [i \in 1 .. RpBlockSize |-> 0]

\* RecordPage._offset, _is_valid_slot
RP_offset(ss, slot) == slot * ss
RP_is_valid_slot_Lax(ss, slot) == RP_offset(ss, slot) <= RpBlockSize
RP_is_valid_slot(ss, slot) == RP_offset(ss, slot + 1) <= RpBlockSize

\* Transaction.get_int / set_int on the pinned block, by the one transaction
RP_get_int(p, off) == Try_get_int(p, off).val
RP_set_int(p, off, v) == Try_set_int(p, off, v).page

\* RecordPage._search_after: its loop from slot on, then the method
RECURSIVE RP_search_from(_, _, _, _)
RP_search_from(p, ss, slot, flag) ==
  IF ~RP_is_valid_slot(ss, slot) THEN -1
  ELSE IF RP_get_int(p, RP_offset(ss, slot)) = flag THEN slot
  ELSE RP_search_from(p, ss, slot + 1, flag)
RP_search_after(p, ss, slot, flag) == RP_search_from(p, ss, slot + 1, flag)

\* RecordPage.next_after, insert_after, delete
RP_next_after(p, ss, slot) == RP_search_after(p, ss, slot, FlagUsed)
RP_insert_after(p, ss, slot) ==
  LET n == RP_search_after(p, ss, slot, FlagEmpty)
  IN [slot |-> n,
      page |-> IF n >= 0 THEN RP_set_int(p, RP_offset(ss, n), FlagUsed) ELSE p]
RP_delete(p, ss, slot) == RP_set_int(p, RP_offset(ss, slot), FlagEmpty)

\* RecordPage.format: the flag and the default of each field, slot by slot
RP_format_slot(p, ss, slot) ==
  LET a == RP_set_int(p, RP_offset(ss, slot), FlagEmpty)
      b == IF ss >= 8 THEN RP_set_int(a, RP_offset(ss, slot) + 4, 0) ELSE a
  IN IF ss >= 12 THEN Try_set_string(b, RP_offset(ss, slot) + 8, << >>).page ELSE b
RECURSIVE RP_format_from(_, _, _)
RP_format_from(p, ss, slot) ==
  IF ~RP_is_valid_slot(ss, slot) THEN p
  ELSE RP_format_from(RP_format_slot(p, ss, slot), ss, slot + 1)
RP_format(p, ss) == RP_format_from(p, ss, 0)

\* A table with its scan, as one record.
Table == [f |-> tbl, s |-> ts]

\* TableScan._move_to_block, _move_to_new_block (Transaction.append, then
\* format), _at_last_block
TS_move_to_block(T, n) == [T EXCEPT !.s.blk = n, !.s.slot = -1]
TS_move_to_new_block(T) ==
  [f |-> Append(T.f, RP_format(ZeroRecordBlock, T.s.ss)),
   s |-> [T.s EXCEPT !.blk = Len(T.f), !.slot = -1]]
TS_at_last_block_Early(T) == T.s.blk >= Len(T.f) - 2
TS_at_last_block(T) == T.s.blk = Len(T.f) - 1

\* One insert_after or next_after of the scan on its current record page
TS_insert_after(T) ==
  LET r == RP_insert_after(T.f[T.s.blk + 1], T.s.ss, T.s.slot)
  IN [f |-> [T.f EXCEPT ![T.s.blk + 1] = r.page], s |-> [T.s EXCEPT !.slot = r.slot]]
TS_next_after(T) ==
  [T EXCEPT !.s.slot = RP_next_after(T.f[T.s.blk + 1], T.s.ss, T.s.slot)]

NoScan == [open |-> FALSE, ss |-> 0, blk |-> 0, slot |-> -1]
NoTsCall == [op |-> "none", busy |-> FALSE, new |-> 0, ret |-> FALSE]
NoTsScan == [on |-> FALSE, done |-> FALSE, seen |-> << >>]
NoRpCall == [op |-> "none", arg |-> 0, ret |-> 0, before |-> << >>]

\* ------------------------------------------------ FileManager on its bytes
\* A file is the sequence of its bytes; a block is FmBlockSize of them.
FmClients == 1 .. MaxPair
ZeroBlock == [i \in 1 .. FmBlockSize |-> 0]
FillBlock(v) == [i \in 1 .. FmBlockSize |-> v]

\* FileManager.length: int(f.seek(0, SEEK_END) / block_size)
File_length(f) == Len(f) \div FmBlockSize

\* f.seek(pos); f.write(page): bytes between the old end and pos read as zero
File_write_at(f, pos, page) ==
  [i \in 1 .. Max(Len(f), pos + FmBlockSize) |->
     IF pos < i /\ i <= pos + FmBlockSize THEN page[i - pos]
     ELSE IF i <= Len(f) THEN f[i] ELSE 0]

\* FileManager.write
File_write(f, blk, page) == File_write_at(f, blk * FmBlockSize, page)

\* FileManager.read: readinto fills the page as far as the file has bytes
File_read(f, blk, page) ==
  [i \in 1 .. FmBlockSize |->
     IF blk * FmBlockSize + i <= Len(f) THEN f[blk * FmBlockSize + i] ELSE page[i]]

\* `with self._lock:` the lock can be taken when no thread holds it
File_lock_open(l) == TRUE
File_lock_free(l) == l = 0

\* ------------------------------------------------- LogManager on its bytes
\* The log manager m with its file f, as one record.
Raw == [m |-> lm, f |-> logFile]

\* LogManager._flush (the client is one thread)
Raw_flush(r) ==
  [r EXCEPT !.f[r.m.cur + 1] = r.m.page, !.m.saved = r.m.latest]

\* LogManager.flush(lsn)
Raw_flush_lsn(r, lsn) == IF lsn >= r.m.saved THEN Raw_flush(r) ELSE r

\* LogManager._append_new_block: FileManager.append, the boundary, the write;
\* the bytes of the page behind the boundary stay as they were.
Raw_append_new_block(r) ==
  LET page == Page_set_int(r.m.page, 0, LogBlockSize)
  IN [r EXCEPT !.f = Append(r.f, page), !.m.page = page, !.m.cur = Len(r.f)]

\* The position LogManager.append gives a record of n bytes in the state r,
\* and the state in which it stores it.
Raw_room(r, n) ==
  IF Page_get_int(r.m.page, 0) - (n + 4) < 4 THEN Raw_append_new_block(Raw_flush(r)) ELSE r
Raw_position(r, n) == Page_get_int(Raw_room(r, n).m.page, 0) - (n + 4)

\* LogManager.append
Raw_append(r, rec) ==
  LET r1 == Raw_room(r, Len(rec))
      pos == Raw_position(r, Len(rec))
  IN [r1 EXCEPT !.m.page = Page_set_int(Page_set_bytes(r1.m.page, pos, rec), 0, pos),
                !.m.latest = @ + 1]

\* LogIterator._move_to_block
Iter_move_to_block(f, i, blk) ==
  LET page == IF blk < Len(f) THEN f[blk + 1] ELSE i.page
  IN [i EXCEPT !.blk = blk, !.page = page, !.pos = Page_get_int(page, 0)]

\* LogIterator._has_next
Iter_has_next(i) == i.pos < LogBlockSize \/ i.blk > 0

\* LogIterator.__next__: end = "stop" for StopIteration, "error" when
\* Page.get_bytes or Page.get_int raises (the offset outside the page).
Iter_next(f, i) ==
  IF ~Iter_has_next(i) THEN [i EXCEPT !.end = "stop"]
  ELSE LET j == IF i.pos = LogBlockSize THEN Iter_move_to_block(f, i, i.blk - 1) ELSE i
       IN IF j.pos < 0 \/ j.pos + 4 > LogBlockSize THEN [j EXCEPT !.end = "error"]
          ELSE LET rec == Page_get_bytes(j.page, j.pos)
               IN [j EXCEPT !.out = Append(@, rec), !.pos = @ + Len(rec) + 4]

NoIter == [on |-> FALSE, blk |-> 0, page |-> ZeroBytes, pos |-> 0, out |-> << >>, end |-> "no"]

\* -------------------------------------------------------------- buffer pool
\* The pool, the data file and the log manager as one record.
Sys == [frames |-> frames, numAvailable |-> numAvailable, disk |-> disk,
        fileLen |-> fileLen, early |-> early, g |-> LogState]

\* FileManager.read: a block at or beyond the end of the file reads no bytes.
FM_read(s, b, page) == IF b < s.fileLen THEN s.disk[b] ELSE page

\* Buffer.flush up to its write of the page; _txnum is not yet reset.
\* (early: the log file lacks a record up to the frame's LSN at that write)
Buffer_flush_write(s, i) ==
  LET f == s.frames[i]
      g == LM_flush(s.g, f.lsn)
  IN [s EXCEPT !.g = g,
               !.early = @ \/ (f.lsn >= 0 /\ lsnBase + f.lsn > g.diskLen),
               !.disk[f.blk] = f.page,
               !.fileLen = Max(s.fileLen, f.blk + 1)]

\* Buffer.flush
Buffer_flush(s, i) ==
  IF s.frames[i].txnum >= 0 /\ s.frames[i].blk # NoBlk
  THEN [Buffer_flush_write(s, i) EXCEPT !.frames[i].txnum = -1]
  ELSE s

\* flush_all's loop over the frames i..last
RECURSIVE FlushFrom(_, _, _, _)
FlushFrom(s, n, i, last) ==
  IF i > last THEN s
  ELSE FlushFrom(IF s.frames[i].txnum = n THEN Buffer_flush(s, i) ELSE s, n, i + 1, last)

\* BufferManager.flush_all
BM_flush_all(s, n) == FlushFrom(s, n, 1, NumBuffers)

\* A _find_existing_buffer that looks at the pinned frames only.
FindExisting_Pinned(s, b) ==
  LET c == {i \in Frames : s.frames[i].blk = b /\ s.frames[i].pins > 0} IN
  IF c = {} THEN 0 ELSE CHOOSE i \in c : \A j \in c : i <= j

\* A _choose_unpinned_buffer that takes the first frame, pinned or not.
ChooseUnpinned_Any(s) == CHOOSE i \in Frames : \A j \in Frames : i <= j

\* BufferManager._find_existing_buffer / _choose_unpinned_buffer: 0 = None
FindExisting(s, b) ==
  LET c == {i \in Frames : s.frames[i].blk = b} IN
  IF c = {} THEN 0 ELSE CHOOSE i \in c : \A j \in c : i <= j
ChooseUnpinned(s) ==
  LET c == {i \in Frames : s.frames[i].pins <= 0} IN
  IF c = {} THEN 0 ELSE CHOOSE i \in c : \A j \in c : i <= j

\* Buffer.assign_to_block
AssignToBlock(s, i, b) ==
  LET s1 == Buffer_flush(s, i) IN
  [s1 EXCEPT !.frames[i].blk = b,
             !.frames[i].page = FM_read(s1, b, s1.frames[i].page),
             !.frames[i].pins = 0]

\* A _try_to_pin that counts a frame as taken before it has found one.
TryToPin_Grab(s, b) ==
  LET e == FindExisting(s, b)
      u == ChooseUnpinned(s)
      i == IF e # 0 THEN e ELSE u
      s0 == [s EXCEPT !.numAvailable = @ - 1]
  IN IF i = 0 THEN [ok |-> FALSE, s |-> s0]
     ELSE LET s1 == IF e # 0 THEN s ELSE AssignToBlock(s, i, b)
              s2 == IF s1.frames[i].pins > 0 THEN s1
                    ELSE [s1 EXCEPT !.numAvailable = @ - 1]
          IN [ok |-> TRUE, s |-> [s2 EXCEPT !.frames[i].pins = @ + 1]]

\* BufferManager._try_to_pin: ok = FALSE when it returns None
TryToPin(s, b) ==
  LET e == FindExisting(s, b)
      u == ChooseUnpinned(s)
      i == IF e # 0 THEN e ELSE u
  IN IF i = 0 THEN [ok |-> FALSE, s |-> s]
     ELSE LET s1 == IF e # 0 THEN s ELSE AssignToBlock(s, i, b)
              s2 == IF s1.frames[i].pins > 0 THEN s1
                    ELSE [s1 EXCEPT !.numAvailable = @ - 1]
          IN [ok |-> TRUE, s |-> [s2 EXCEPT !.frames[i].pins = @ + 1]]

\* BufferManager.pin: the loop `while buffer is None and _waiting_too_long(ts)`
\* is not entered when the first attempt fails (no time has passed), so the
\* call raises BufferAbortError at once.
BM_pin(s, b) == TryToPin(s, b)

\* BufferManager.unpin
BM_unpin(s, i) ==
  LET s1 == [s EXCEPT !.frames[i].pins = @ - 1] IN
  IF s1.frames[i].pins > 0 THEN s1 ELSE [s1 EXCEPT !.numAvailable = @ + 1]

\* Buffer.unpin, as BufferList.unpin calls it: the pool's count is not touched.
Buffer_unpin(s, i) == [s EXCEPT !.frames[i].pins = @ - 1]

\* An unpin_all that unpins each block of the pin list once.
RECURSIVE UnpinAll_Once(_, _, _)
UnpinAll_Once(s, P, bs) ==
  IF bs = {} THEN s
  ELSE LET b == CHOOSE x \in bs : \A y \in bs : x <= y
           i == FindExisting(s, b)
       IN UnpinAll_Once(IF i = 0 THEN s ELSE BM_unpin(s, i), P, bs \ {b})

\* BufferList.unpin_all of a pin list P (block -> occurrences)
RECURSIVE UnpinAll(_, _, _)
UnpinAll(s, P, bs) ==
  IF bs = {} THEN s
  ELSE LET b == CHOOSE x \in bs : \A y \in bs : x <= y
           i == FindExisting(s, b)
           RECURSIVE Times(_, _)
           Times(x, k) == IF k = 0 \/ i = 0 THEN x ELSE Times(BM_unpin(x, i), k - 1)
       IN UnpinAll(Times(s, P[b]), P, bs \ {b})

\* Writes the record s back into the variables.
Store(s) ==
  /\ frames' = s.frames
  /\ numAvailable' = s.numAvailable
  /\ disk' = s.disk
  /\ fileLen' = s.fileLen
  /\ early' = s.early
  /\ log' = s.g.log
  /\ diskLen' = s.g.diskLen
  /\ curStart' = s.g.curStart
  /\ latestLsn' = s.g.latestLsn
  /\ lastSavedLsn' = s.g.lastSavedLsn

\* ------------------------------------------------------------------- state
NoVals == [b \in Blocks |-> [o \in Offsets |-> -1]]
NoPins == [b \in Blocks |-> 0]
FreshFrame == [blk |-> NoBlk, pins |-> 0, txnum |-> -1, lsn |-> -1, page |-> ZeroPage]

Init ==
  /\ next_txnum = 0
  /\ st = [t \in Txs |-> "new"]
  /\ mode = [t \in Txs |-> "none"]
  /\ txnum = [t \in Txs |-> 0]
  /\ cmLocks = [t \in Txs |-> << >>]
  /\ pins = [t \in Txs |-> NoPins]
  /\ locks = [b \in LockBlocks |-> 0]
  /\ uval = [t \in Txs |-> 0]
  /\ pend = [t \in Txs |-> 0]
  /\ relIdx = [t \in Txs |-> 0]
  /\ it = [t \in Txs |-> 0]
  /\ fin = [t \in Txs |-> {}]
  /\ cont = [t \in Txs |-> "none"]
  /\ frames = [i \in Frames |-> FreshFrame]
  /\ numAvailable = NumBuffers
  /\ disk = [b \in Blocks |-> ZeroPage]
  /\ fileLen = 0
  /\ log = << >>
  /\ diskLen = 0
  /\ curStart = 0
  /\ latestLsn = 0
  /\ lastSavedLsn = 0
  /\ lsnBase = 0
  /\ crashes = 0
  /\ aborted = [t \in Txs |-> FALSE]
  /\ orig = [t \in Txs |-> NoVals]
  /\ wrote = [t \in Txs |-> NoVals]
  /\ nops = [t \in Txs |-> 0]
  /\ early = FALSE
  /\ lm = [page |-> Page_set_int(ZeroBytes, 0, LogBlockSize), cur |-> 0, latest |-> 0, saved |-> 0]
  /\ logFile = <<Page_set_int(ZeroBytes, 0, LogBlockSize)>>
  /\ liter = NoIter
  /\ appended = << >>
  /\ want = [t \in Txs |-> NoBlk]
  /\ fmBytes = << >>
  /\ fmLock = 0
  /\ fmPc = [c \in FmClients |-> "idle"]
  /\ fmNew = [c \in FmClients |-> 0]
  /\ fmPrev = [c \in FmClients |-> 0]
  /\ fmRet = << >>
  /\ fmPage = [c \in FmClients |-> ZeroBlock]
  /\ pg = [i \in 1 .. PageSize |-> 0]
  /\ pgLast = NoCall
  /\ pgOps = 0
  /\ tbl = << >>
  /\ ts = NoScan
  /\ tsCall = NoTsCall
  /\ tsIns = << >>
  /\ tsScan = NoTsScan
  /\ tsPure = TRUE
  /\ rpLast = NoRpCall
  /\ ltSt = [c \in Txs |-> "idle"]
  /\ ltHeld = [c \in Txs |-> "none"]
  /\ ltVal = [c \in Txs |-> 0]
  /\ ltWoken = [c \in Txs |-> FALSE]
  /\ ltLate = [c \in Txs |-> FALSE]

\* A transaction is in recover() (startup: no user transaction begins meanwhile).
Recovering == \E t \in Txs : mode[t] = "recover" /\ st[t] \in {"lwant", "lflush", "undo"}

\* Transaction._next_tx_number: `self._next_txnum += 1` reads the class
\* attribute, stores the sum in an attribute of the instance and returns it;
\* the class attribute is left as it was.
NextTxNumber == next_txnum + 1

\* Transaction.__init__ (RecoveryManager.__init__ appends the START record)
Begin(t) ==
  /\ st[t] = "new"
  /\ \A u \in Txs : u < t => st[u] # "new"
  /\ ~Recovering
  /\ Cardinality({u \in Txs : st[u] \in {"active", "aborted"}}) < MaxActive
  /\ Len(log) < MaxLog
  /\ LET n == NextTxNumber
         g == LM_append(LogState, PlainRec("START", n, t))
     IN /\ txnum' = [txnum EXCEPT ![t] = n]
        /\ Store([Sys EXCEPT !.g = g])
  /\ st' = [st EXCEPT ![t] = "active"]
  /\ UNCHANGED <<unitVars, nops, next_txnum, mode, cmLocks, pins, locks, uval, pend, relIdx, it, fin,
                 cont, lsnBase, crashes, aborted, orig, wrote>>

\* A thread is inside BufferManager.flush_all and holds the manager's lock.
BmBusy == \E t \in Txs : st[t] = "fclr"

\* Transaction.pin -> BufferList.pin -> BufferManager.pin
Pin(t, b) ==
  /\ st[t] = "active"
  /\ nops' = [nops EXCEPT ![t] = @ + 1]
  /\ pins[t][b] < MaxPins
  /\ ~BmBusy
  /\ LET r == BM_pin(Sys, b) IN
       IF r.ok
       THEN /\ Store(r.s)
            /\ pins' = [pins EXCEPT ![t][b] = @ + 1]
            /\ UNCHANGED <<st, aborted>>
       ELSE /\ st' = [st EXCEPT ![t] = "aborted"]
            /\ aborted' = [aborted EXCEPT ![t] = TRUE]
            /\ UNCHANGED <<pins, poolVars, log, diskLen, curStart, latestLsn, lastSavedLsn>>
  /\ UNCHANGED <<unitVars, next_txnum, mode, txnum, cmLocks, locks, uval, pend, relIdx, it, fin,
                 cont, lsnBase, crashes, orig, wrote>>

\* Transaction.unpin -> BufferList.unpin (a block not pinned: nothing happens)
Unpin(t, b) ==
  /\ st[t] = "active"
  /\ nops' = [nops EXCEPT ![t] = @ + 1]
  /\ pins[t][b] > 0
  /\ Store(Buffer_unpin(Sys, FindExisting(Sys, b)))
  /\ pins' = [pins EXCEPT ![t][b] = @ - 1]
  /\ UNCHANGED <<unitVars, next_txnum, st, mode, txnum, cmLocks, locks, uval, pend, relIdx, it,
                 fin, cont, lsnBase, crashes, aborted, orig, wrote>>

\* Transaction.unpin of a block that is not in the pin list: get() returns
\* None and nothing is done.
UnpinNone(t, b) ==
  /\ st[t] = "active"
  /\ nops' = [nops EXCEPT ![t] = @ + 1]
  /\ pins[t][b] = 0
  /\ UNCHANGED <<unitVars, next_txnum, st, mode, txnum, cmLocks, pins, locks, uval, pend, relIdx,
                 it, fin, cont, poolVars, log, diskLen, curStart, latestLsn, lastSavedLsn,
                 lsnBase, crashes, aborted, orig, wrote>>

\* The lock part of an operation: res = "wait" ends in LockAbortError.
TakeLock(t, r) ==
  /\ locks' = r.L
  /\ cmLocks' = [cmLocks EXCEPT ![t] = r.C]
  /\ IF r.res = "wait"
     THEN /\ st' = [st EXCEPT ![t] = "aborted"]
          /\ aborted' = [aborted EXCEPT ![t] = TRUE]
     ELSE UNCHANGED <<st, aborted>>

\* Transaction.get_int / get_string: slock, then the read (RuntimeError from
\* get_buffer when the block is not pinned); the state changes by the lock only.
GetInt(t, b) ==
  /\ st[t] = "active"
  /\ nops' = [nops EXCEPT ![t] = @ + 1]
  /\ TakeLock(t, CM_slock(locks, cmLocks[t], b))
  /\ UNCHANGED <<unitVars, next_txnum, mode, txnum, pins, uval, pend, relIdx, it, fin, cont,
                 poolVars, logVars, crashes, orig, wrote>>

\* Buffer.set_modified after Page.set_int
Modify(s, i, o, v, n, lsn) ==
  [s EXCEPT !.frames[i].page[o] = v,
            !.frames[i].txnum = n,
            !.frames[i].lsn = IF lsn >= 0 THEN lsn ELSE @]

\* Transaction.set_int / set_string with RecoveryManager.set_int / set_string
SetInt(t, b, o, v, okToLog) ==
  /\ st[t] = "active"
  /\ nops' = [nops EXCEPT ![t] = @ + 1]
  /\ okToLog => Len(log) < MaxLog
  /\ LET r == CM_xlock(locks, cmLocks[t], b)
         i == FindExisting(Sys, b)
     IN /\ TakeLock(t, r)
        /\ IF r.res = "ok" /\ pins[t][b] > 0
           THEN LET old == frames[i].page[o]
                    g == IF okToLog
                         THEN LM_append(LogState, Rec("SETINT", txnum[t], b, o, old, t, v))
                         ELSE LogState
                    lsn == IF okToLog THEN g.latestLsn ELSE -1
                IN /\ Store(Modify([Sys EXCEPT !.g = g], i, o, v, txnum[t], lsn))
                   /\ orig' = IF okToLog /\ orig[t][b][o] = -1
                              THEN [orig EXCEPT ![t][b][o] = old] ELSE orig
                   /\ wrote' = [wrote EXCEPT ![t][b][o] = v]
           ELSE UNCHANGED <<poolVars, log, diskLen, curStart, latestLsn,
                            lastSavedLsn, orig, wrote>>
  /\ UNCHANGED <<unitVars, next_txnum, mode, txnum, pins, uval, pend, relIdx, it, fin, cont,
                 lsnBase, crashes>>

\* Transaction.size: S on the end-of-file sentinel, then FileManager.length
Size(t) ==
  /\ st[t] = "active"
  /\ nops' = [nops EXCEPT ![t] = @ + 1]
  /\ TakeLock(t, CM_slock(locks, cmLocks[t], EOF))
  /\ UNCHANGED <<unitVars, next_txnum, mode, txnum, pins, uval, pend, relIdx, it, fin, cont,
                 poolVars, logVars, crashes, orig, wrote>>

\* Transaction.append: X on the sentinel, then FileManager.append
AppendBlock(t) ==
  /\ st[t] = "active"
  /\ nops' = [nops EXCEPT ![t] = @ + 1]
  /\ fileLen < MaxTxBlocks
  /\ LET r == CM_xlock(locks, cmLocks[t], EOF) IN
       /\ TakeLock(t, r)
       /\ IF r.res = "ok"
          THEN /\ disk' = [disk EXCEPT ![fileLen] = ZeroPage]
               /\ fileLen' = fileLen + 1
          ELSE UNCHANGED <<disk, fileLen>>
  /\ UNCHANGED <<unitVars, next_txnum, mode, txnum, pins, uval, pend, relIdx, it, fin, cont,
                 frames, numAvailable, early, logVars, crashes, orig, wrote>>

\* ---------------------------------------------- commit, rollback and recover
\* The record has been appended (its LSN is the caller's local lsn); the call
\* of LogManager.flush(lsn) is the thread's next step (LForce).
ForceLog(t, s, after) ==
  /\ Store(s)
  /\ st' = [st EXCEPT ![t] = "lwant"]
  /\ cont' = [cont EXCEPT ![t] = after]

\* The frames flush_all(txnum of t) writes that another thread, which has the
\* block pinned, may store into between Buffer.flush's write of the page and
\* its _txnum = -1 (set_int takes no lock of the buffer manager).
Raced(t) ==
  {i \in Frames : /\ frames[i].txnum = txnum[t]
                  /\ frames[i].blk # NoBlk
                  /\ \E u \in Txs \ {t} : st[u] = "active" /\ pins[u][frames[i].blk] > 0}

\* flush_all(txnum of t) and then the record rec with its log write; d # 0:
\* the thread is preempted in Buffer.flush of frame d, after the page's write.
FlushAndLog(t, d, rec, after) ==
  IF d = 0
  THEN /\ LET s1 == BM_flush_all(Sys, txnum[t])
              g == LM_append(s1.g, rec)
          IN ForceLog(t, [s1 EXCEPT !.g = g], after)
       /\ UNCHANGED pend
  ELSE /\ Store(Buffer_flush_write(FlushFrom(Sys, txnum[t], 1, d - 1), d))
       /\ st' = [st EXCEPT ![t] = "fclr"]
       /\ pend' = [pend EXCEPT ![t] = d]
       /\ UNCHANGED cont

\* Transaction.commit, first part: RecoveryManager.commit up to the COMMIT record
Commit(t) ==
  /\ st[t] \in {"active", "recovered"}
  /\ ~BmBusy
  /\ mode' = [mode EXCEPT ![t] = "commit"]
  /\ \E d \in {0} \cup Raced(t) :
       FlushAndLog(t, d, PlainRec("COMMIT", txnum[t], t), "rel")
  /\ relIdx' = [relIdx EXCEPT ![t] = 1]
  /\ UNCHANGED <<unitVars, nops, next_txnum, txnum, cmLocks, pins, locks, uval, it, fin,
                 lsnBase, crashes, aborted, orig, wrote>>

\* The rest of flush_all after a preemption in Buffer.flush: _txnum = -1, the
\* remaining frames, then the COMMIT / ROLLBACK record and the log write.
FlushClear(t) ==
  /\ st[t] = "fclr"
  /\ LET s0 == [Sys EXCEPT !.frames[pend[t]].txnum = -1]
         s1 == FlushFrom(s0, txnum[t], pend[t] + 1, NumBuffers)
         r == PlainRec(IF mode[t] = "commit" THEN "COMMIT" ELSE "ROLLBACK", txnum[t], t)
         g == LM_append(s1.g, r)
     IN ForceLog(t, [s1 EXCEPT !.g = g], "rel")
  /\ pend' = [pend EXCEPT ![t] = 0]
  /\ UNCHANGED <<unitVars, nops, next_txnum, mode, txnum, cmLocks, pins, locks, uval, relIdx,
                 it, fin, lsnBase, crashes, aborted, orig, wrote>>

\* The LSN that the last append of t returned: the local lsn of commit,
\* rollback and recover.
LastBy(t) ==
  LET c == {i \in DOMAIN log : log[i].by = t} IN
  IF c = {} THEN 0 ELSE CHOOSE i \in c : \A j \in c : j <= i
MyLsn(t) == LastBy(t) - lsnBase

\* LogManager.flush(lsn): `if lsn >= self._lagest_saved_lsn`
LM_flush_needed(lsn, saved) == lsn >= saved

\* LogManager.flush(lsn) outside every lock: its test and the write of the
\* log page now, the store of _lagest_saved_lsn in the thread's next step
\* (LFlush2); when the test fails the caller goes on.
LForce(t) ==
  /\ st[t] = "lwant"
  /\ IF LM_flush_needed(MyLsn(t), lastSavedLsn)
     THEN /\ diskLen' = Len(log)
          /\ st' = [st EXCEPT ![t] = "lflush"]
     ELSE /\ st' = [st EXCEPT ![t] = cont[t]]
          /\ UNCHANGED diskLen
  /\ UNCHANGED <<unitVars, nops, next_txnum, mode, txnum, cmLocks, pins, locks, uval, pend, relIdx,
                 it, fin, cont, poolVars, log, curStart, latestLsn, lastSavedLsn,
                 lsnBase, crashes, aborted, orig, wrote>>

\* Transaction.set_int / set_string with ok_to_log, first part: xlock, then
\* RecoveryManager.set_int reads the old value and appends the record.  The
\* store into the page is the thread's next step (SetIntStore): the page is
\* read and written outside every monitor.
SetIntLog(t, b, o, v) ==
  /\ st[t] = "active"
  /\ nops' = [nops EXCEPT ![t] = @ + 1]
  /\ Len(log) < MaxLog
  /\ LET r == CM_xlock(locks, cmLocks[t], b)
         i == FindExisting(Sys, b)
     IN /\ locks' = r.L
        /\ cmLocks' = [cmLocks EXCEPT ![t] = r.C]
        /\ IF r.res = "wait"
           THEN /\ st' = [st EXCEPT ![t] = "aborted"]
                /\ aborted' = [aborted EXCEPT ![t] = TRUE]
                /\ UNCHANGED <<poolVars, log, diskLen, curStart, latestLsn, lastSavedLsn>>
           ELSE IF pins[t][b] > 0
           THEN /\ Store([Sys EXCEPT !.g = LM_append(LogState,
                            Rec("SETINT", txnum[t], b, o, frames[i].page[o], t, v))])
                /\ st' = [st EXCEPT ![t] = "setw"]
                /\ UNCHANGED aborted
           ELSE UNCHANGED <<st, aborted, poolVars, log, diskLen, curStart, latestLsn,
                            lastSavedLsn>>
  /\ UNCHANGED <<unitVars, next_txnum, mode, txnum, pins, uval, pend, relIdx, it, fin, cont,
                 lsnBase, crashes, orig, wrote>>

\* Transaction.set_int / set_string with ok_to_log, second part:
\* page.set_int(offset, value); buffer.set_modified(txnum, lsn)
SetIntStore(t) ==
  /\ st[t] = "setw"
  /\ LET r == log[LastBy(t)]
         i == FindExisting(Sys, r.blk)
     IN /\ i # 0
        /\ Store(Modify(Sys, i, r.off, r.new, txnum[t], MyLsn(t)))
        /\ orig' = IF orig[t][r.blk][r.off] = -1
                   THEN [orig EXCEPT ![t][r.blk][r.off] = r.old] ELSE orig
        /\ wrote' = [wrote EXCEPT ![t][r.blk][r.off] = r.new]
  /\ st' = [st EXCEPT ![t] = "active"]
  /\ UNCHANGED <<unitVars, nops, next_txnum, mode, txnum, cmLocks, pins, locks, uval, pend, relIdx,
                 it, fin, cont, lsnBase, crashes, aborted>>

\* LogManager._flush, second part: _lagest_saved_lsn = _latest_lsn.  After
\* __iter__ the LogIterator is then built on the log file as it is on disk.
LFlush2(t) ==
  /\ st[t] = "lflush"
  /\ lastSavedLsn' = latestLsn
  /\ st' = [st EXCEPT ![t] = cont[t]]
  /\ it' = [it EXCEPT ![t] = IF cont[t] = "undo" THEN diskLen ELSE @]
  /\ UNCHANGED <<unitVars, nops, next_txnum, mode, txnum, cmLocks, pins, locks, uval, pend, relIdx,
                 fin, cont, poolVars, log, diskLen, curStart, latestLsn,
                 lsnBase, crashes, aborted, orig, wrote>>

\* Transaction.rollback, first part: _do_rollback's `for b in self._log_manager`
Rollback(t) ==
  /\ st[t] \in {"active", "aborted"}
  /\ mode' = [mode EXCEPT ![t] = "rollback"]
  /\ diskLen' = Len(log)
  /\ st' = [st EXCEPT ![t] = "lflush"]
  /\ cont' = [cont EXCEPT ![t] = "undo"]
  /\ UNCHANGED <<unitVars, nops, next_txnum, txnum, cmLocks, pins, locks, uval, pend, relIdx, it, fin,
                 poolVars, log, curStart, latestLsn, lastSavedLsn, lsnBase,
                 crashes, aborted, orig, wrote>>

\* Transaction.recover, first part: flush_all, then _do_recover's iterator.
\* It is called at startup, before any other transaction exists.
Recover(t) ==
  /\ st[t] = "active"
  /\ ~BmBusy
  /\ cmLocks[t] = << >> /\ pins[t] = NoPins
  /\ \A u \in Txs \ {t} : st[u] \in {"new", "gone", "recovered"}
  /\ mode' = [mode EXCEPT ![t] = "recover"]
  /\ LET s1 == BM_flush_all(Sys, txnum[t])
     IN Store([s1 EXCEPT !.g.diskLen = Len(s1.g.log)])
  /\ st' = [st EXCEPT ![t] = "lflush"]
  /\ cont' = [cont EXCEPT ![t] = "undo"]
  /\ fin' = [fin EXCEPT ![t] = {}]
  /\ UNCHANGED <<unitVars, nops, next_txnum, txnum, cmLocks, pins, locks, uval, pend, relIdx, it,
                 lsnBase, crashes, aborted, orig, wrote>>

\* _do_rollback's loop up to the next record it acts on: the newest record at
\* or below j with the transaction's txnum that is a START or an update
\* (undo of COMMIT and ROLLBACK records does nothing).  0: the log is exhausted.
RECURSIVE RollbackScan(_, _)
RollbackScan(j, n) ==
  IF j = 0 THEN 0
  ELSE IF log[j].txnum = n /\ (log[j].op = "START" \/ IsSet(log[j])) THEN j
  ELSE RollbackScan(j - 1, n)

\* _do_recover's loop up to the next update record it undoes: i = 0 when it
\* returns (CHECKPOINT or end of the log); F is finished_txs.
RECURSIVE RecoverScan_Through(_, _)
RecoverScan_Through(j, F) ==
  IF j = 0 THEN [i |-> 0, F |-> F]
  ELSE IF log[j].op \in {"COMMIT", "ROLLBACK"} THEN RecoverScan_Through(j - 1, F \cup {log[j].txnum})
  ELSE IF IsSet(log[j]) /\ log[j].txnum \notin F THEN [i |-> j, F |-> F]
  ELSE RecoverScan_Through(j - 1, F)
RECURSIVE RecoverScan(_, _)
RecoverScan(j, F) ==
  IF j = 0 THEN [i |-> 0, F |-> F]
  ELSE IF log[j].op = "CHECKPOINT" THEN [i |-> 0, F |-> F]
  ELSE IF log[j].op \in {"COMMIT", "ROLLBACK"} THEN RecoverScan(j - 1, F \cup {log[j].txnum})
  ELSE IF IsSet(log[j]) /\ log[j].txnum \notin F THEN [i |-> j, F |-> F]
  ELSE RecoverScan(j - 1, F)

\* The record the loop of t acts on next, and finished_txs when it gets there.
Target(t) ==
  IF mode[t] = "recover" THEN RecoverScan(it[t], fin[t])
  ELSE LET j == RollbackScan(it[t], txnum[t]) IN
       [i |-> IF j # 0 /\ log[j].op = "START" THEN 0 ELSE j, F |-> fin[t]]

\* SetIntRecord.undo / SetStringRecord.undo on record log[i]:
\* tx.pin, tx.set_int(..., ok_to_log = False), tx.unpin.
Undo(t, i, F) ==
  LET r == log[i]
      p == BM_pin(Sys, r.blk)
      x == CM_xlock(locks, cmLocks[t], r.blk)
      f == FindExisting(p.s, r.blk)
  IN IF ~p.ok
     THEN \* BufferAbortError leaves rollback/recover
          /\ st' = [st EXCEPT ![t] = "failed"]
          /\ UNCHANGED <<pins, locks, cmLocks, it, fin, poolVars, logVars, wrote>>
     ELSE IF x.res = "wait"
     THEN \* LockAbortError leaves rollback/recover; the pin stays
          /\ st' = [st EXCEPT ![t] = "failed"]
          /\ pins' = [pins EXCEPT ![t][r.blk] = @ + 1]
          /\ locks' = x.L
          /\ cmLocks' = [cmLocks EXCEPT ![t] = x.C]
          /\ Store(p.s)
          /\ UNCHANGED <<it, fin, lsnBase, wrote>>
     ELSE /\ Store(Buffer_unpin(Modify(p.s, f, r.off, r.old, txnum[t], -1), f))
          /\ locks' = x.L
          /\ cmLocks' = [cmLocks EXCEPT ![t] = x.C]
          /\ it' = [it EXCEPT ![t] = i - 1]
          /\ fin' = [fin EXCEPT ![t] = F]
          /\ wrote' = [wrote EXCEPT ![t][r.blk][r.off] = r.old]
          /\ UNCHANGED <<st, pins, lsnBase>>

\* One round of _do_rollback / _do_recover: undo the next record.
UndoStep(t) ==
  /\ st[t] = "undo"
  /\ ~BmBusy
  /\ Target(t).i # 0
  /\ Undo(t, Target(t).i, Target(t).F)
  /\ UNCHANGED <<unitVars, nops, next_txnum, mode, txnum, uval, pend, relIdx, cont, crashes, aborted,
                 orig>>

\* The loop is over: RecoveryManager.rollback / recover go on with flush_all,
\* the ROLLBACK / CHECKPOINT record and the log write.
UndoDone(t) ==
  /\ st[t] = "undo"
  /\ ~BmBusy
  /\ Target(t).i = 0
  /\ IF mode[t] = "recover"
     THEN FlushAndLog(t, 0, PlainRec("CHECKPOINT", -1, t), "recovered")
     ELSE \E d \in {0} \cup Raced(t) :
            FlushAndLog(t, d, PlainRec("ROLLBACK", txnum[t], t), "rel")
  /\ relIdx' = [relIdx EXCEPT ![t] = 1]
  /\ UNCHANGED <<unitVars, nops, next_txnum, mode, txnum, cmLocks, pins, locks, uval, it, fin,
                 lsnBase, crashes, aborted, orig, wrote>>

\* ConcurrencyManager.release -> LockTable.unlock, its read: val = _get_lock_val
RelRead(t) ==
  /\ st[t] = "rel"
  /\ relIdx[t] <= Len(cmLocks[t])
  /\ uval' = [uval EXCEPT ![t] = locks[cmLocks[t][relIdx[t]].b]]
  /\ st' = [st EXCEPT ![t] = "unl"]
  /\ UNCHANGED <<unitVars, nops, next_txnum, mode, txnum, cmLocks, pins, locks, pend, relIdx, it, fin,
                 cont, poolVars, logVars, crashes, aborted, orig, wrote>>

\* LockTable.unlock, its write: the store of val - 1, or the pop (KeyError
\* when the entry is not there any more).
Unlock(L, b, val) == IF val > 1 THEN [L EXCEPT ![b] = val - 1] ELSE [L EXCEPT ![b] = 0]

RelWrite(t) ==
  /\ st[t] = "unl"
  /\ LET b == cmLocks[t][relIdx[t]].b IN
       IF uval[t] <= 1 /\ locks[b] = 0
       THEN /\ st' = [st EXCEPT ![t] = "failed"]
            /\ UNCHANGED <<locks, relIdx>>
       ELSE /\ locks' = Unlock(locks, b, uval[t])
            /\ relIdx' = [relIdx EXCEPT ![t] = @ + 1]
            /\ st' = [st EXCEPT ![t] = "rel"]
  /\ uval' = [uval EXCEPT ![t] = 0]
  /\ UNCHANGED <<unitVars, nops, next_txnum, mode, txnum, cmLocks, pins, pend, it, fin, cont,
                 poolVars, logVars, crashes, aborted, orig, wrote>>

\* The transaction object is not used after its end: its iterator, its
\* position in release and the values it found before its writes are dropped.
Forget(t) ==
  /\ nops' = [nops EXCEPT ![t] = 0]
  /\ relIdx' = [relIdx EXCEPT ![t] = 0]
  /\ it' = [it EXCEPT ![t] = 0]
  /\ fin' = [fin EXCEPT ![t] = {}]
  /\ cont' = [cont EXCEPT ![t] = "none"]
  /\ orig' = [orig EXCEPT ![t] = NoVals]
  /\ UNCHANGED wrote

\* release's _locks.clear(), then BufferList.unpin_all: commit/rollback return
RelDone(t) ==
  /\ st[t] = "rel"
  /\ ~BmBusy
  /\ relIdx[t] > Len(cmLocks[t])
  /\ cmLocks' = [cmLocks EXCEPT ![t] = << >>]
  /\ Store(UnpinAll(Sys, pins[t], {b \in Blocks : pins[t][b] > 0}))
  /\ pins' = [pins EXCEPT ![t] = NoPins]
  /\ st' = [st EXCEPT ![t] = "done"]
  /\ Forget(t)
  /\ UNCHANGED <<unitVars, next_txnum, mode, txnum, locks, uval, pend, lsnBase, crashes, aborted>>

\* The process stops and is started again: memory is lost, the files stay.
Crash ==
  /\ crashes < MaxCrashes
  /\ \E t \in Txs : st[t] # "new"
  /\ \E t \in Txs : st[t] = "new"
  /\ crashes' = crashes + 1
  /\ st' = [t \in Txs |-> IF st[t] = "new" THEN "new" ELSE "gone"]
  /\ cmLocks' = [t \in Txs |-> << >>]
  /\ pins' = [t \in Txs |-> NoPins]
  /\ locks' = [b \in LockBlocks |-> 0]
  /\ uval' = [t \in Txs |-> 0]
  /\ pend' = [t \in Txs |-> 0]
  /\ relIdx' = [t \in Txs |-> 0]
  /\ it' = [t \in Txs |-> 0]
  /\ fin' = [t \in Txs |-> {}]
  /\ cont' = [t \in Txs |-> "none"]
  /\ frames' = [i \in Frames |-> FreshFrame]
  /\ numAvailable' = NumBuffers
  /\ log' = SubSeq(log, 1, diskLen)
  /\ latestLsn' = 0
  /\ lastSavedLsn' = 0
  /\ lsnBase' = diskLen
  /\ UNCHANGED <<unitVars, nops, next_txnum, mode, txnum, disk, fileLen, diskLen, curStart,
                 aborted, orig, wrote, early>>

\* --------------------------------- clients of the buffer manager (test_buffer.py)
\* Thread c calls the buffer manager itself; no Transaction is made for it.
\* st[c] = "babort": its last call raised BufferAbortError.
BmIdle(c) == st[c] \in {"new", "babort"}

\* buffer_manager.pin(b).  late: `_waiting_too_long(timestamp)` is true at the
\* first test of the loop (the thread lost the processor for MAX_TIME since
\* it took the timestamp); the loop is then entered, and is left only with a
\* frame.  Otherwise a first attempt that fails raises BufferAbortError.
BmPin(c, b, late) ==
  /\ BmIdle(c)
  /\ pins[c][b] < MaxPins
  /\ nops' = [nops EXCEPT ![c] = @ + 1]
  /\ LET r == BM_pin(Sys, b) IN
       /\ Store(r.s)
       /\ IF r.ok
          THEN /\ pins' = [pins EXCEPT ![c][b] = @ + 1]
               /\ st' = [st EXCEPT ![c] = "new"]
               /\ UNCHANGED want
          ELSE /\ st' = [st EXCEPT ![c] = IF late THEN "bwait" ELSE "babort"]
               /\ want' = [want EXCEPT ![c] = IF late THEN b ELSE @]
               /\ UNCHANGED pins
  /\ UNCHANGED <<rawLogVars, extVars, next_txnum, mode, txnum, cmLocks, locks, uval, pend, relIdx,
                 it, fin, cont, lsnBase, crashes, aborted, orig, wrote>>

\* The thread waiting in pin's loop is woken and its _try_to_pin finds a frame.
BmRetry(c) ==
  /\ st[c] = "bwait"
  /\ LET r == TryToPin(Sys, want[c]) IN
       /\ r.ok
       /\ Store(r.s)
  /\ pins' = [pins EXCEPT ![c][want[c]] = @ + 1]
  /\ st' = [st EXCEPT ![c] = "new"]
  /\ want' = [want EXCEPT ![c] = NoBlk]
  /\ UNCHANGED <<rawLogVars, extVars, nops, next_txnum, mode, txnum, cmLocks, locks, uval, pend,
                 relIdx, it, fin, cont, lsnBase, crashes, aborted, orig, wrote>>

\* buffer_manager.unpin(buffer) of a buffer the thread got from pin(b)
BmUnpin(c, b) ==
  /\ BmIdle(c)
  /\ pins[c][b] > 0
  /\ nops' = [nops EXCEPT ![c] = @ + 1]
  /\ Store(BM_unpin(Sys, FindExisting(Sys, b)))
  /\ pins' = [pins EXCEPT ![c][b] = @ - 1]
  /\ st' = [st EXCEPT ![c] = "new"]
  /\ UNCHANGED <<unitVars, next_txnum, mode, txnum, cmLocks, locks, uval, pend, relIdx,
                 it, fin, cont, lsnBase, crashes, aborted, orig, wrote>>

\* buffer.contents.set_int(o, v); buffer.set_modified(1, 0) on a pinned buffer
BmSetModified(c, b, o, v) ==
  /\ BmIdle(c)
  /\ pins[c][b] > 0
  /\ nops' = [nops EXCEPT ![c] = @ + 1]
  /\ Store(Modify(Sys, FindExisting(Sys, b), o, v, 1, 0))
  /\ st' = [st EXCEPT ![c] = "new"]
  /\ UNCHANGED <<unitVars, next_txnum, mode, txnum, cmLocks, pins, locks, uval, pend,
                 relIdx, it, fin, cont, lsnBase, crashes, aborted, orig, wrote>>

\* ------------------------------------ a client of the log manager (test_log.py)
\* The client's records: n bytes, each the number of the append call.
RecLens == {ShortRec, LongRec, LogBlockSize - 4}
MakeRec(n, id) == [k \in 1 .. n |-> id]

\* log_manager.append(record) with a record of n bytes
RawAppend(n) ==
  /\ ~liter.on
  /\ Len(appended) < MaxRawAppends
  /\ LET rec == MakeRec(n, Len(appended) + 1)
         r == Raw_append(Raw, rec)
     IN /\ lm' = r.m
        /\ logFile' = r.f
        /\ appended' = Append(appended, [bytes |-> rec, blk |-> r.m.cur,
                                         pos |-> Raw_position(Raw, n)])
  /\ UNCHANGED <<liter, want, extVars, coreVars>>

\* log_manager.flush(lsn)
RawFlush(lsn) ==
  /\ ~liter.on
  /\ lsn <= lm.latest
  /\ LET r == Raw_flush_lsn(Raw, lsn) IN lm' = r.m /\ logFile' = r.f
  /\ UNCHANGED <<liter, appended, want, extVars, coreVars>>

\* iter(log_manager): LogManager.__iter__, then LogIterator.__init__
RawIter ==
  /\ ~liter.on
  /\ LET r == Raw_flush(Raw)
     IN /\ lm' = r.m
        /\ logFile' = r.f
        /\ liter' = Iter_move_to_block(r.f, [NoIter EXCEPT !.on = TRUE], r.m.cur)
  /\ UNCHANGED <<appended, want, extVars, coreVars>>

\* next(iterator)
RawNext ==
  /\ liter.on /\ liter.end = "no"
  /\ liter' = Iter_next(logFile, liter)
  /\ UNCHANGED <<lm, logFile, appended, want, extVars, coreVars>>

\* The loop over the iterator is left (StopIteration or an error).
RawClose ==
  /\ liter.on /\ liter.end # "no"
  /\ liter' = NoIter
  /\ UNCHANGED <<lm, logFile, appended, want, extVars, coreVars>>

\* ------------------------------- clients of a file manager (test_file.py)
\* FileManager.append, `with self._lock:`
FmAppendLock(c) ==
  /\ fmPc[c] = "idle"
  /\ File_lock_free(fmLock)
  /\ File_length(fmBytes) < MaxFileBlocks
  /\ fmLock' = c
  /\ fmPrev' = [fmPrev EXCEPT ![c] = File_length(fmBytes)]
  /\ fmPc' = [fmPc EXCEPT ![c] = "length"]
  /\ UNCHANGED <<fmBytes, fmNew, fmRet, fmPage, rawLogVars, want, pageVars, recVars, waitVars, coreVars>>

\* new_block_number = self.length(filename)
FmAppendLength(c) ==
  /\ fmPc[c] = "length"
  /\ fmNew' = [fmNew EXCEPT ![c] = File_length(fmBytes)]
  /\ fmPc' = [fmPc EXCEPT ![c] = "write"]
  /\ UNCHANGED <<fmBytes, fmLock, fmPrev, fmRet, fmPage, rawLogVars, want, pageVars, recVars, waitVars, coreVars>>

\* f.seek(new_block_number * block_size); f.write(bytearray(block_size)); f.flush()
FmAppendWrite(c) ==
  /\ fmPc[c] = "write"
  /\ fmBytes' = File_write_at(fmBytes, fmNew[c] * FmBlockSize, ZeroBlock)
  /\ fmPc' = [fmPc EXCEPT ![c] = "ret"]
  /\ UNCHANGED <<fmLock, fmNew, fmPrev, fmRet, fmPage, rawLogVars, want, pageVars, recVars, waitVars, coreVars>>

\* return block: the lock is released
FmAppendReturn(c) ==
  /\ fmPc[c] = "ret"
  /\ fmLock' = 0
  /\ fmRet' = Append(fmRet, fmNew[c])
  /\ fmPc' = [fmPc EXCEPT ![c] = "idle"]
  /\ UNCHANGED <<fmBytes, fmNew, fmPrev, fmPage, rawLogVars, want, pageVars, recVars, waitVars, coreVars>>

\* FileManager.write(block, page) of a page the client filled with v
FmWrite(c, blk, v) ==
  /\ fmPc[c] = "idle"
  /\ File_lock_free(fmLock)
  /\ fmPage' = [fmPage EXCEPT ![c] = FillBlock(v)]
  /\ fmBytes' = File_write(fmBytes, blk, FillBlock(v))
  /\ UNCHANGED <<fmLock, fmPc, fmNew, fmPrev, fmRet, rawLogVars, want, pageVars, recVars, waitVars, coreVars>>

\* FileManager.read(block, page)
FmRead(c, blk) ==
  /\ fmPc[c] = "idle"
  /\ File_lock_free(fmLock)
  /\ fmPage' = [fmPage EXCEPT ![c] = File_read(fmBytes, blk, fmPage[c])]
  /\ UNCHANGED <<fmBytes, fmLock, fmPc, fmNew, fmPrev, fmRet, rawLogVars, want, pageVars, recVars, waitVars, coreVars>>

\* ----------------------------------------- a client of a page (test_file.py)
PageOffsets == (0 - PageSize - 4) .. (PageSize + 1)
PageInts == {2, 100, -2}
PageBytes == {<< >>, <<7>>, <<200, 7>>}
PageStrings == {<<65>>, <<233>>}

\* page.set_int(off, v)
PgSetInt(off, v) ==
  /\ pgOps < MaxPageOps
  /\ LET r == Try_set_int(pg, off, v)
     IN /\ pg' = r.page
        /\ pgLast' = Call("set_int", off, off + 4, pg, r.err, r.page)
  /\ pgOps' = pgOps + 1
  /\ UNCHANGED <<rawLogVars, want, fileVars, recVars, waitVars, coreVars>>

\* page.set_bytes(off, b)
PgSetBytes(off, b) ==
  /\ pgOps < MaxPageOps
  /\ LET r == Try_set_bytes(pg, off, b)
     IN /\ pg' = r.page
        /\ pgLast' = Call("set_bytes", off, off + 4 + Len(b), pg, r.err, r.page)
  /\ pgOps' = pgOps + 1
  /\ UNCHANGED <<rawLogVars, want, fileVars, recVars, waitVars, coreVars>>

\* page.set_string(off, s)
PgSetString(off, str) ==
  /\ pgOps < MaxPageOps
  /\ LET r == Try_set_string(pg, off, str)
     IN /\ pg' = r.page
        /\ pgLast' = Call("set_string", off, off + 4 + Len(str), pg, r.err, r.page)
  /\ pgOps' = pgOps + 1
  /\ UNCHANGED <<rawLogVars, want, fileVars, recVars, waitVars, coreVars>>

\* The end of the value stored at off: the integer, or the length and the
\* bytes it announces when the length can be read.
AnnouncedEnd(p, off) ==
  IF Try_get_int(p, off).err \/ Try_get_int(p, off).val < 0
  THEN off + 4
  ELSE off + 4 + Try_get_int(p, off).val

\* page.get_int(off)
PgGetInt(off) ==
  /\ pgOps < MaxPageOps
  /\ pgLast' = Call("get_int", off, off + 4, pg, Try_get_int(pg, off).err, pg)
  /\ pgOps' = pgOps + 1
  /\ UNCHANGED <<pg, rawLogVars, want, fileVars, recVars, waitVars, coreVars>>

\* page.get_bytes(off)
PgGetBytes(off) ==
  /\ pgOps < MaxPageOps
  /\ pgLast' = Call("get_bytes", off, AnnouncedEnd(pg, off), pg, Try_get_bytes(pg, off).err, pg)
  /\ pgOps' = pgOps + 1
  /\ UNCHANGED <<pg, rawLogVars, want, fileVars, recVars, waitVars, coreVars>>

\* page.get_string(off)
PgGetString(off) ==
  /\ pgOps < MaxPageOps
  /\ pgLast' = Call("get_string", off, AnnouncedEnd(pg, off), pg, Try_get_string(pg, off).err, pg)
  /\ pgOps' = pgOps + 1
  /\ UNCHANGED <<pg, rawLogVars, want, fileVars, recVars, waitVars, coreVars>>

\* ------------------------ a client of a table (test_record.py, test_query.py)
SlotSizes == {4, 8, RpBlockSize + 2}
Rid(T) == <<T.s.blk, T.s.slot>>

\* TableScan(tx, name, layout) on a table that does not exist yet
TsOpen(ss) ==
  /\ ~ts.open
  /\ LET T == TS_move_to_new_block([f |-> tbl, s |-> [NoScan EXCEPT !.open = TRUE, !.ss = ss]])
     IN tbl' = T.f /\ ts' = T.s
  /\ UNCHANGED <<tsCall, tsIns, tsScan, tsPure, rpLast, rawLogVars, want, fileVars, pageVars, waitVars, coreVars>>

\* The end of a TableScan.insert call that stopped on a slot
InsertDone(T, new) ==
  /\ tbl' = T.f
  /\ ts' = T.s
  /\ tsCall' = [op |-> "insert", busy |-> T.s.slot < 0, new |-> new, ret |-> T.s.slot >= 0]
  /\ tsIns' = IF T.s.slot >= 0 THEN Append(tsIns, Rid(T)) ELSE tsIns
  /\ tsScan' = NoTsScan

\* TableScan.insert: the first insert_after
TsInsert ==
  /\ ts.open /\ ~tsCall.busy
  /\ Len(tsIns) < MaxInserts
  /\ Len(tbl) < MaxTableBlocks
  /\ InsertDone(TS_insert_after(Table), 0)
  /\ UNCHANGED <<tsPure, rpLast, rawLogVars, want, fileVars, pageVars, waitVars, coreVars>>

\* TableScan.insert: one turn of its loop, on the next block or on a new one
TsInsertStep ==
  /\ tsCall.busy /\ tsCall.op = "insert"
  /\ IF TS_at_last_block(Table)
     THEN /\ Len(tbl) < MaxTableBlocks
          /\ InsertDone(TS_insert_after(TS_move_to_new_block(Table)), tsCall.new + 1)
     ELSE InsertDone(TS_insert_after(TS_move_to_block(Table, ts.blk + 1)), tsCall.new)
  /\ UNCHANGED <<tsPure, rpLast, rawLogVars, want, fileVars, pageVars, waitVars, coreVars>>

\* TableScan.delete on the current record
TsDelete ==
  /\ ts.open /\ ~tsCall.busy /\ ts.slot >= 0
  /\ tbl' = [tbl EXCEPT ![ts.blk + 1] = RP_delete(@, ts.ss, ts.slot)]
  /\ tsCall' = [NoTsCall EXCEPT !.op = "delete"]
  /\ tsPure' = FALSE
  /\ UNCHANGED <<ts, tsIns, tsScan, rpLast, rawLogVars, want, fileVars, pageVars, waitVars, coreVars>>

\* TableScan.before_first
TsBeforeFirst ==
  /\ ts.open /\ ~tsCall.busy
  /\ ts' = TS_move_to_block(Table, 0).s
  /\ tsCall' = [NoTsCall EXCEPT !.op = "before_first"]
  /\ tsScan' = [NoTsScan EXCEPT !.on = TRUE]
  /\ UNCHANGED <<tbl, tsIns, tsPure, rpLast, rawLogVars, want, fileVars, pageVars, waitVars, coreVars>>

\* The end of a next_after of TableScan.next: it returns True on a slot,
\* False on the last block, and goes round its loop otherwise.
NextDone(T) ==
  /\ ts' = T.s
  /\ tsCall' = [op |-> "next", busy |-> T.s.slot < 0 /\ ~TS_at_last_block(T), new |-> 0,
                ret |-> T.s.slot >= 0]
  /\ tsScan' = [tsScan EXCEPT !.done = T.s.slot < 0 /\ TS_at_last_block(T),
                              !.seen = IF T.s.slot >= 0 THEN Append(@, Rid(T)) ELSE @]

\* TableScan.next: the first next_after
TsNext ==
  /\ ts.open /\ ~tsCall.busy /\ ~tsScan.done
  /\ NextDone(TS_next_after(Table))
  /\ UNCHANGED <<tbl, tsIns, tsPure, rpLast, rawLogVars, want, fileVars, pageVars, waitVars, coreVars>>

\* TableScan.next: one turn of its loop, on the next block
TsNextStep ==
  /\ tsCall.busy /\ tsCall.op = "next"
  /\ NextDone(TS_next_after(TS_move_to_block(Table, ts.blk + 1)))
  /\ UNCHANGED <<tbl, tsIns, tsPure, rpLast, rawLogVars, want, fileVars, pageVars, waitVars, coreVars>>

\* record_page.insert_after(slot) on the first block of the table
RpInsertAfter(slot) ==
  /\ ts.open
  /\ LET r == RP_insert_after(tbl[1], ts.ss, slot)
     IN /\ tbl' = [tbl EXCEPT ![1] = r.page]
        /\ rpLast' = [op |-> "insert_after", arg |-> slot, ret |-> r.slot, before |-> tbl[1]]
  /\ UNCHANGED <<ts, tsCall, tsIns, tsScan, tsPure, rawLogVars, want, fileVars, pageVars, waitVars, coreVars>>

\* record_page.delete(slot) of a slot of the first block
RpDelete(slot) ==
  /\ ts.open
  /\ RP_is_valid_slot(ts.ss, slot)
  /\ tbl' = [tbl EXCEPT ![1] = RP_delete(@, ts.ss, slot)]
  /\ rpLast' = [op |-> "delete", arg |-> slot, ret |-> 0, before |-> tbl[1]]
  /\ UNCHANGED <<ts, tsCall, tsIns, tsScan, tsPure, rawLogVars, want, fileVars, pageVars, waitVars, coreVars>>

\* Layout.__init__ for a schema of one field, the integer A or the string B
\* of declared length StrFieldLen: the flag takes 4 bytes, the field follows.
Layout_length_in_bytes(f) == IF f = "A" THEN 4 ELSE 4 + StrFieldLen
Layout_offset(f) == 4
Layout_slot_size(f) == Layout_offset(f) + Layout_length_in_bytes(f)

\* The values a client stores: integers, and strings of the character "A", up
\* to one that reaches the next slot's flag.
FieldInts == {-1, 0, 1, 7}
FieldStrings == {[i \in 1 .. n |-> 65] : n \in 0 .. (StrFieldLen + 4)}

\* record_page.set_int(slot, "A", v) on the first block of the table
RpSetInt(slot, v) ==
  /\ ts.open /\ ts.ss = Layout_slot_size("A")
  /\ RP_is_valid_slot(ts.ss, slot)
  /\ LET r == Try_set_int(tbl[1], RP_offset(ts.ss, slot) + Layout_offset("A"), v)
     IN /\ tbl' = [tbl EXCEPT ![1] = r.page]
        /\ rpLast' = [op |-> "set_int", arg |-> slot, ret |-> IF r.err THEN -1 ELSE 0,
                      before |-> tbl[1]]
  /\ UNCHANGED <<ts, tsCall, tsIns, tsScan, tsPure, rawLogVars, want, fileVars, pageVars, waitVars, coreVars>>

\* record_page.set_string(slot, "B", str) on the first block of the table
RpSetString(slot, str) ==
  /\ ts.open /\ ts.ss = Layout_slot_size("B")
  /\ RP_is_valid_slot(ts.ss, slot)
  /\ LET r == Try_set_string(tbl[1], RP_offset(ts.ss, slot) + Layout_offset("B"), str)
     IN /\ tbl' = [tbl EXCEPT ![1] = r.page]
        /\ rpLast' = [op |-> "set_string", arg |-> slot, ret |-> IF r.err THEN -1 ELSE 0,
                      before |-> tbl[1]]
  /\ UNCHANGED <<ts, tsCall, tsIns, tsScan, tsPure, rawLogVars, want, fileVars, pageVars, waitVars, coreVars>>

\* -------------------------------- threads in the lock table, on one block
\* What every step of such a thread leaves alone.
LtRest == <<rawLogVars, want, fileVars, pageVars, recVars, coreButLocks>>
LtBlock == CHOOSE b \in Blocks : \A d \in Blocks : b <= d
LtWaiting(c) == ltSt[c] \in {"swait", "xwait"}

\* The lock is granted to c, or c goes into cv.wait(MAX_TIME).
LtGrant(c, m, late) ==
  /\ locks' = IF m = "S" THEN LT_slock(locks, LtBlock) ELSE LT_xlock(locks, LtBlock)
  /\ ltHeld' = [ltHeld EXCEPT ![c] = m]
  /\ ltSt' = [ltSt EXCEPT ![c] = "idle"]
  /\ ltWoken' = [ltWoken EXCEPT ![c] = FALSE]
  /\ ltLate' = [ltLate EXCEPT ![c] = late]
LtWait(c, w) ==
  /\ ltSt' = [ltSt EXCEPT ![c] = w]
  /\ ltWoken' = [ltWoken EXCEPT ![c] = FALSE]
  /\ UNCHANGED <<locks, ltHeld, ltLate>>

\* ConcurrencyManager.slock -> LockTable.slock, up to its first wait
LtSlock(c) ==
  /\ ltSt[c] = "idle" /\ ltHeld[c] = "none"
  /\ locks[LtBlock] < NumTx
  /\ IF LT_has_xlock(locks, LtBlock) THEN LtWait(c, "swait") ELSE LtGrant(c, "S", FALSE)
  /\ UNCHANGED <<ltVal, LtRest>>

\* ConcurrencyManager.xlock, after its slock -> LockTable.xlock, up to its first wait
LtXlock(c) ==
  /\ ltSt[c] = "idle" /\ ltHeld[c] = "S"
  /\ IF LT_has_other_slocks(locks, LtBlock) THEN LtWait(c, "xwait") ELSE LtGrant(c, "X", FALSE)
  /\ UNCHANGED <<ltVal, LtRest>>

\* LockTable._waiting_too_long at the loop's test; late: MAX_TIME has passed
\* since the call took its timestamp
LT_waiting_too_long_Never(late) == FALSE
LT_waiting_too_long(late) == late

\* The conflict c's loop tests: an X lock for slock, other S locks for xlock
LtConflict(c) ==
  IF ltSt[c] = "swait" THEN LT_has_xlock(locks, LtBlock)
  ELSE LT_has_other_slocks(locks, LtBlock)

\* c's wait has ended and the loop tests again: the thread waits once more,
\* or leaves the loop and raises LockAbortError (it keeps what it had), or
\* is granted the lock.  timedOut: the wait ended by its timeout.
LtAfterWait(c, late, timedOut) ==
  IF LtConflict(c) /\ ~LT_waiting_too_long(late) THEN LtWait(c, ltSt[c])
  ELSE IF LtConflict(c)
  THEN /\ ltSt' = [ltSt EXCEPT ![c] = "idle"]
       /\ ltLate' = [ltLate EXCEPT ![c] = TRUE]
       /\ ltWoken' = [ltWoken EXCEPT ![c] = FALSE]
       /\ UNCHANGED <<locks, ltHeld>>
  ELSE LtGrant(c, IF ltSt[c] = "swait" THEN "S" ELSE "X", timedOut)

\* notify_all has ended c's wait
LtWake(c, late) ==
  /\ LtWaiting(c) /\ ltWoken[c]
  /\ LtAfterWait(c, late, FALSE)
  /\ UNCHANGED <<ltVal, LtRest>>

\* c's wait ends after MAX_TIME: _waiting_too_long ends the loop
LtTimeout(c) ==
  /\ LtWaiting(c) /\ ~ltWoken[c]
  /\ LtAfterWait(c, TRUE, TRUE)
  /\ UNCHANGED <<ltVal, LtRest>>

\* ConcurrencyManager.release -> LockTable.unlock: val = self._get_lock_val(block_id)
LtUnlockRead(c) ==
  /\ ltSt[c] = "idle" /\ ltHeld[c] # "none"
  /\ ltVal' = [ltVal EXCEPT ![c] = locks[LtBlock]]
  /\ ltSt' = [ltSt EXCEPT ![c] = "unl"]
  /\ UNCHANGED <<locks, ltHeld, ltWoken, ltLate, LtRest>>

\* unlock's store of val - 1, or its pop (KeyError when the entry is gone)
\* followed by notify_all
LtUnlockWrite(c) ==
  /\ ltSt[c] = "unl"
  /\ IF ltVal[c] > 1
     THEN /\ locks' = Unlock(locks, LtBlock, ltVal[c])
          /\ UNCHANGED ltWoken
     ELSE IF locks[LtBlock] = 0
     THEN UNCHANGED <<locks, ltWoken>>
     ELSE /\ locks' = Unlock(locks, LtBlock, ltVal[c])
          /\ ltWoken' = [d \in Txs |-> ltWoken[d] \/ LtWaiting(d)]
  /\ ltSt' = [ltSt EXCEPT ![c] = "idle"]
  /\ ltHeld' = [ltHeld EXCEPT ![c] = "none"]
  /\ ltVal' = [ltVal EXCEPT ![c] = 0]
  /\ UNCHANGED <<ltLate, LtRest>>

Pinned(t) == {b \in Blocks : pins[t][b] > 0}
Contended == {0}
Workers == 1..MaxWorkers
Pair == 1..MaxPair

\* Transaction t may issue one more call (of at most k).
Can(t, k) == nops[t] < k

\* The transactions between their construction and their end.
Running == {u \in Txs : st[u] \notin {"new", "done", "recovered", "gone", "failed"}}

\* One client thread (the first transactions) that pins, reads and writes,
\* beside transactions that only begin and end, at most MaxActive of them
\* at a time; crash and restart.
Next ==
  \/ \E t \in Txs : Cardinality(Running) < MaxActive /\ Begin(t)
  \/ \E t \in Workers, b \in TxBlocks : Can(t, MaxOps) /\ Pin(t, b)
  \/ \E t \in Workers, b \in TxBlocks : Can(t, MaxOps) /\ Unpin(t, b)
  \/ \E t \in Workers : \E b \in Pinned(t) : Can(t, MaxOps) /\ GetInt(t, b)
  \/ \E t \in Workers : \E b \in Pinned(t), o \in Offsets, v \in Values, k \in BOOLEAN :
        Can(t, MaxOps) /\ SetInt(t, b, o, v, k)
  \/ \E t \in Txs : Commit(t)
  \/ \E t \in Txs : FlushClear(t)
  \/ \E t \in Txs : LForce(t)
  \/ \E t \in Txs : LFlush2(t)
  \/ \E t \in Txs : Rollback(t)
  \/ \E t \in Txs : Recover(t)
  \/ \E t \in Txs : UndoStep(t)
  \/ \E t \in Txs : UndoDone(t)
  \/ \E t \in Txs : RelRead(t)
  \/ \E t \in Txs : RelWrite(t)
  \/ \E t \in Txs : RelDone(t)
  \/ Crash

Spec == Init /\ [][Next]_vars

\* One client thread that pins and writes, beside transactions that begin,
\* commit and call recover(); crash and restart.
NextRecover ==
  \/ \E t \in Txs : Begin(t)
  \/ \E t \in Workers, b \in TxBlocks : Can(t, MaxOps) /\ Pin(t, b)
  \/ \E t \in Workers : \E b \in Pinned(t), o \in Offsets, v \in Values, k \in BOOLEAN :
        Can(t, MaxOps) /\ SetInt(t, b, o, v, k)
  \/ \E t \in Txs : Commit(t)
  \/ \E t \in Txs : FlushClear(t)
  \/ \E t \in Txs : LForce(t)
  \/ \E t \in Txs : LFlush2(t)
  \/ \E t \in Txs : Recover(t)
  \/ \E t \in Txs : UndoStep(t)
  \/ \E t \in Txs : UndoDone(t)
  \/ \E t \in Txs : RelRead(t)
  \/ \E t \in Txs : RelWrite(t)
  \/ \E t \in Txs : RelDone(t)
  \/ Crash

SpecRecover == Init /\ [][NextRecover]_vars

\* One client thread that pins and writes with logging, beside two threads
\* whose transactions begin and commit: three threads in the log manager.
NextCommit ==
  \/ \E t \in Txs : Begin(t)
  \/ \E t \in Workers, b \in TxBlocks : Can(t, MaxOps) /\ Pin(t, b)
  \/ \E t \in Workers : \E b \in Pinned(t), o \in Offsets, v \in Values :
        Can(t, MaxOps) /\ SetInt(t, b, o, v, TRUE)
  \/ \E t \in Txs : Commit(t)
  \/ \E t \in Txs : FlushClear(t)
  \/ \E t \in Txs : LForce(t)
  \/ \E t \in Txs : LFlush2(t)
  \/ \E t \in Txs : RelRead(t)
  \/ \E t \in Txs : RelWrite(t)
  \/ \E t \in Txs : RelDone(t)

SpecCommit == Init /\ [][NextCommit]_vars

\* Three client threads on one block: one reads it and commits, two pin it,
\* read it and write it, the logged writes in their two parts.
Writers == Txs \ Workers
NextStamp ==
  \/ \E t \in Txs : Begin(t)
  \/ \E t \in Writers, b \in Contended : Can(t, MaxOpsFlush) /\ Pin(t, b)
  \/ \E t \in Txs, b \in Contended : Can(t, MaxOpsFlush) /\ GetInt(t, b)
  \/ \E t \in Writers : \E b \in Pinned(t), o \in Offsets, v \in Values :
        Can(t, MaxOpsFlush) /\ SetIntLog(t, b, o, v)
  \/ \E t \in Writers : SetIntStore(t)
  \/ \E t \in Writers : \E b \in Pinned(t), o \in Offsets, v \in Values :
        Can(t, MaxOpsFlush) /\ SetInt(t, b, o, v, FALSE)
  \/ \E t \in Workers : Commit(t)
  \/ \E t \in Workers : LForce(t)
  \/ \E t \in Workers : LFlush2(t)
  \/ \E t \in Workers : RelRead(t)
  \/ \E t \in Workers : RelWrite(t)
  \/ \E t \in Workers : RelDone(t)

SpecStamp == Init /\ [][NextStamp]_vars

\* Two client threads that pin, read, write and ask for the file's size.
NextPair ==
  \/ \E t \in Pair : Begin(t)
  \/ \E t \in Pair, b \in TxBlocks : Can(t, MaxOps) /\ Pin(t, b)
  \/ \E t \in Pair, b \in TxBlocks : Can(t, MaxOps) /\ Unpin(t, b)
  \/ \E t \in Pair : \E b \in Pinned(t) : Can(t, MaxOps) /\ GetInt(t, b)
  \/ \E t \in Pair : \E b \in Pinned(t), o \in Offsets, v \in Values, k \in BOOLEAN :
        Can(t, MaxOps) /\ SetInt(t, b, o, v, k)
  \/ \E t \in Pair : Can(t, MaxOps) /\ Size(t)
  \/ \E t \in Pair : Can(t, MaxOps) /\ AppendBlock(t)
  \/ \E t \in Pair : Commit(t)
  \/ \E t \in Pair : FlushClear(t)
  \/ \E t \in Pair : LForce(t)
  \/ \E t \in Pair : LFlush2(t)
  \/ \E t \in Pair : Rollback(t)
  \/ \E t \in Pair : Recover(t)
  \/ \E t \in Pair : UndoStep(t)
  \/ \E t \in Pair : UndoDone(t)
  \/ \E t \in Pair : RelRead(t)
  \/ \E t \in Pair : RelWrite(t)
  \/ \E t \in Pair : RelDone(t)

SpecPair == Init /\ [][NextPair]_vars

\* The lock requests of three client threads on one block: get_int and
\* set_int on a block the caller has not pinned (the lock is taken, then
\* get_buffer raises RuntimeError), and the releases of commit.
NextLocks ==
  \/ \E t \in Txs : Begin(t)
  \/ \E t \in Txs, b \in Contended : Can(t, MaxOps) /\ GetInt(t, b)
  \/ \E t \in Txs, b \in Contended, o \in Offsets, v \in Values :
        Can(t, MaxOps) /\ SetInt(t, b, o, v, TRUE)
  \/ \E t \in Txs : Commit(t)
  \/ \E t \in Txs : LForce(t)
  \/ \E t \in Txs : LFlush2(t)
  \/ \E t \in Txs : RelRead(t)
  \/ \E t \in Txs : RelWrite(t)
  \/ \E t \in Txs : RelDone(t)

SpecLocks == Init /\ [][NextLocks]_vars

\* Two client threads that write one block with logging and commit.
NextFlush ==
  \/ \E t \in Pair : Begin(t)
  \/ \E t \in Pair, b \in Contended : Can(t, MaxOpsFlush) /\ Pin(t, b)
  \/ \E t \in Pair : \E b \in Pinned(t), o \in Offsets, v \in Values :
        Can(t, MaxOpsFlush) /\ SetInt(t, b, o, v, TRUE)
  \/ \E t \in Pair : Commit(t)
  \/ \E t \in Pair : FlushClear(t)
  \/ \E t \in Pair : LForce(t)
  \/ \E t \in Pair : LFlush2(t)
  \/ \E t \in Pair : RelRead(t)
  \/ \E t \in Pair : RelWrite(t)
  \/ \E t \in Pair : RelDone(t)

SpecFlush == Init /\ [][NextFlush]_vars

\* One client thread of a log manager: appends, flushes and reads the log back.
NextLog ==
  \/ \E n \in RecLens : RawAppend(n)
  \/ \E lsn \in 0 .. MaxRawAppends : RawFlush(lsn)
  \/ RawIter
  \/ RawNext
  \/ RawClose

SpecLog == Init /\ [][NextLog]_vars

\* One client thread that pins and unpins the blocks and writes one of them
\* with logging, beside a transaction that begins and commits: frames are
\* written, unpinned and given to other blocks.
NextEvict ==
  \/ \E t \in Pair : Begin(t)
  \/ \E t \in Workers, b \in TxBlocks : Can(t, MaxOpsEvict) /\ Pin(t, b)
  \/ \E t \in Workers, b \in TxBlocks : Can(t, MaxOpsEvict) /\ Unpin(t, b)
  \/ \E t \in Workers : \E b \in Pinned(t) \cap Contended, o \in Offsets, v \in Values :
        Can(t, MaxOpsEvict) /\ SetInt(t, b, o, v, TRUE)
  \/ \E t \in Pair : Commit(t)
  \/ \E t \in Pair : FlushClear(t)
  \/ \E t \in Pair : LForce(t)
  \/ \E t \in Pair : LFlush2(t)
  \/ \E t \in Pair : RelRead(t)
  \/ \E t \in Pair : RelWrite(t)
  \/ \E t \in Pair : RelDone(t)

SpecEvict == Init /\ [][NextEvict]_vars

\* Two threads that pin, modify and unpin three blocks in a pool of two frames.
NextPool ==
  \/ \E c \in Pair, b \in Blocks, late \in BOOLEAN : Can(c, MaxOpsPool) /\ BmPin(c, b, late)
  \/ \E c \in Pair : BmRetry(c)
  \/ \E c \in Pair, b \in Blocks : Can(c, MaxOpsPool) /\ BmUnpin(c, b)
  \/ \E c \in Pair, b \in Blocks, o \in Offsets, v \in Values :
        Can(c, MaxOpsPool) /\ BmSetModified(c, b, o, v)

SpecPool == Init /\ [][NextPool]_vars

\* Two threads that append to one file, write its blocks and read them.
NextFile ==
  \/ \E c \in FmClients : FmAppendLock(c)
  \/ \E c \in FmClients : FmAppendLength(c)
  \/ \E c \in FmClients : FmAppendWrite(c)
  \/ \E c \in FmClients : FmAppendReturn(c)
  \/ \E c \in FmClients, blk \in 0 .. (MaxFileBlocks - 1), v \in 1 .. MaxVal : FmWrite(c, blk, v)
  \/ \E c \in FmClients, blk \in 0 .. (MaxFileBlocks - 1) : FmRead(c, blk)

SpecFile == Init /\ [][NextFile]_vars

\* One thread that writes and reads a page at any offsets.
NextPage ==
  \/ \E off \in PageOffsets, v \in PageInts : PgSetInt(off, v)
  \/ \E off \in PageOffsets, b \in PageBytes : PgSetBytes(off, b)
  \/ \E off \in PageOffsets, str \in PageStrings : PgSetString(off, str)
  \/ \E off \in PageOffsets : PgGetInt(off)
  \/ \E off \in PageOffsets : PgGetBytes(off)
  \/ \E off \in PageOffsets : PgGetString(off)

SpecPage == Init /\ [][NextPage]_vars

\* One transaction on one formatted record page: insert_after and delete.
NextRecord ==
  \/ \E ss \in SlotSizes : TsOpen(ss)
  \/ \E slot \in -1 .. (RpBlockSize \div 4) : RpInsertAfter(slot)
  \/ \E slot \in 0 .. (RpBlockSize \div 4) : RpDelete(slot)

SpecRecord == Init /\ [][NextRecord]_vars

\* One transaction with one scan on a new table: inserts, deletes, scans.
NextTable ==
  \/ \E ss \in SlotSizes : TsOpen(ss)
  \/ TsInsert
  \/ TsInsertStep
  \/ TsDelete
  \/ TsBeforeFirst
  \/ TsNext
  \/ TsNextStep

SpecTable == Init /\ [][NextTable]_vars

\* One transaction on one formatted record page of a table with one field:
\* insert_after, delete and the writes of the field.
NextFields ==
  \/ \E f \in {"A", "B"} : TsOpen(Layout_slot_size(f))
  \/ \E slot \in -1 .. (RpBlockSize \div 4) : RpInsertAfter(slot)
  \/ \E slot \in 0 .. (RpBlockSize \div 4) : RpDelete(slot)
  \/ \E slot \in 0 .. (RpBlockSize \div 4), v \in FieldInts : RpSetInt(slot, v)
  \/ \E slot \in 0 .. (RpBlockSize \div 4), str \in FieldStrings : RpSetString(slot, str)

SpecFields == Init /\ [][NextFields]_vars

\* Two transactions that pin and unpin two blocks in the pool of two frames
\* (a TableScan's moves and its close are such pins and unpins), write them,
\* and commit or roll back.
NextPins ==
  \/ \E t \in Pair : Begin(t)
  \/ \E t \in Pair, b \in TxBlocks : Can(t, MaxOpsFlush) /\ Pin(t, b)
  \/ \E t \in Pair, b \in TxBlocks : Can(t, MaxOpsFlush) /\ Unpin(t, b)
  \/ \E t \in Pair, b \in Contended : Can(t, MaxOpsFlush) /\ UnpinNone(t, b)
  \/ \E t \in Workers : \E b \in Pinned(t) \cap Contended, o \in Offsets :
        Can(t, MaxOpsFlush) /\ SetInt(t, b, o, MaxVal, TRUE)
  \/ \E t \in Pair : Commit(t)
  \/ \E t \in Pair : FlushClear(t)
  \/ \E t \in Pair : LForce(t)
  \/ \E t \in Pair : LFlush2(t)
  \/ \E t \in Pair : Rollback(t)
  \/ \E t \in Pair : UndoStep(t)
  \/ \E t \in Pair : UndoDone(t)
  \/ \E t \in Pair : RelRead(t)
  \/ \E t \in Pair : RelWrite(t)
  \/ \E t \in Pair : RelDone(t)

SpecPins == Init /\ [][NextPins]_vars

\* Three threads that lock and unlock one block, with their waits.
NextWait ==
  \/ \E c \in Txs : LtSlock(c)
  \/ \E c \in Txs : LtXlock(c)
  \/ \E c \in Txs, late \in BOOLEAN : LtWake(c, late)
  \/ \E c \in Txs : LtTimeout(c)
  \/ \E c \in Txs : LtUnlockRead(c)
  \/ \E c \in Txs : LtUnlockWrite(c)

SpecWait == Init /\ [][NextWait]_vars

\* Time passes for a thread that waits in the lock table: its cv.wait(MAX_TIME)
\* ends, and once MAX_TIME has passed since its timestamp the loop's test
\* finds _waiting_too_long true.
LtLeave(c) == LtTimeout(c) \/ LtWake(c, TRUE)
FairWait == SpecWait /\ \A c \in Txs : WF_vars(LtLeave(c))

\* ===================================================================== claims
\* t holds a lock of mode m on b: the entry is in its ConcurrencyManager and
\* release has not yet unlocked it.
Holding(t, b, m) ==
  \E i \in DOMAIN cmLocks[t] : i >= relIdx[t] /\ cmLocks[t][i] = [b |-> b, m |-> m]

XHolders(b) == {t \in Txs : Holding(t, b, "X")}
SHolders(b) == {t \in Txs : Holding(t, b, "S")}

\* C1: in every reachable state each block has at most one transaction
\* holding X and then no other holder, or only S holders.
C1_LockExclusive ==
  \A b \in LockBlocks :
    /\ Cardinality(XHolders(b)) <= 1
    /\ XHolders(b) # {} => SHolders(b) = {}

\* Transactions constructed since the process started.
Constructed == {t \in Txs : st[t] \notin {"new", "gone"}}

\* C2: a transaction's txnum is strictly greater than the txnum of every
\* transaction constructed before it in the same run (transactions are
\* constructed in the order of Txs), so no two share a txnum.
C2_TxnumIncreasing ==
  \A t \in Constructed, u \in Constructed : t < u => txnum[t] < txnum[u]

\* The value a reader finds at offset o of block b: the page of the frame
\* bound to b, or the block on disk.
CurVal(b, o) ==
  IF \E i \in Frames : frames[i].blk = b
  THEN frames[FindExisting(Sys, b)].page[o]
  ELSE disk[b][o]

\* rollback of t has undone, flushed and logged, and has not yet released.
RolledBack(t) == mode[t] = "rollback" /\ st[t] = "rel" /\ relIdx[t] = 1

\* C3: when rollback of T has run its undo, every location T wrote with
\* logging holds the value it held just before T's first write to it,
\* whatever other transactions were started meanwhile.
C3_RollbackRestores ==
  \A t \in Txs : RolledBack(t) =>
    \A b \in Blocks, o \in Offsets : orig[t][b][o] # -1 => CurVal(b, o) = orig[t][b][o]

\* C4: every record that rollback of T undoes (pins, X-locks and writes its
\* block) was written by T; records of other transactions are left alone.
C4_RollbackOwnRecords ==
  \A t \in Txs : mode[t] = "rollback" /\ st[t] = "undo" /\ Target(t).i # 0 =>
    log[Target(t).i].by = t

\* The records recover() looks at: those after the newest CHECKPOINT that is
\* not the log's last record.
LastCheckpoint ==
  LET c == {i \in 1..(Len(log) - 1) : log[i].op = "CHECKPOINT"} IN
  IF c = {} THEN 0 ELSE CHOOSE i \in c : \A j \in c : j <= i

SetsAt(b, o) ==
  {i \in (LastCheckpoint + 1)..Len(log) : IsSet(log[i]) /\ log[i].blk = b /\ log[i].off = o}

LastSet(b, o) == CHOOSE i \in SetsAt(b, o) : \A j \in SetsAt(b, o) : j <= i

FirstSetBy(w, b, o) ==
  LET c == {i \in SetsAt(b, o) : log[i].by = w} IN CHOOSE i \in c : \A j \in c : i <= j

EndedWith(w, ops) ==
  \E i \in (LastCheckpoint + 1)..Len(log) : log[i].op \in ops /\ log[i].by = w

\* recover() of t has returned and nothing has been logged since.
JustRecovered(t) ==
  st[t] = "recovered" /\ log # << >> /\ log[Len(log)].op = "CHECKPOINT"

\* C5: after recover(), a location whose last logged write was made by a
\* transaction without COMMIT or ROLLBACK record holds on disk the value it
\* had before that transaction's first write; a location last written by a
\* committed transaction holds on disk the value that transaction left there.
C5_RecoverUndoesUncommitted ==
  \A t \in Txs : JustRecovered(t) =>
    \A b \in Blocks, o \in Offsets : SetsAt(b, o) # {} =>
      LET w == log[LastSet(b, o)].by IN
        /\ ~EndedWith(w, {"COMMIT", "ROLLBACK"}) =>
              disk[b][o] = log[FirstSetBy(w, b, o)].old
        /\ EndedWith(w, {"COMMIT"}) => disk[b][o] = wrote[w][b][o]

\* C6: write-ahead logging: no frame's page is ever written to its data
\* block while a log record with an LSN up to the frame's LSN is not yet in
\* the log file.
C6_WriteAheadLog == ~early

\* Another transaction has stored a value in block b (set_int or undo).
WrittenByOther(t, b) ==
  \E u \in Txs \ {t} : \E o \in Offsets : wrote[u][b][o] # -1

\* C7: at the step in which commit() of T returns, the disk image of every
\* block that T wrote and no other transaction wrote holds T's last writes,
\* whatever other transactions did to other blocks meanwhile.
C7_CommitDurable ==
  [][\A t \in Txs : (mode[t] = "commit" /\ st[t] = "rel" /\ st'[t] = "done") =>
       \A b \in Blocks, o \in Offsets :
         (wrote[t][b][o] # -1 /\ ~WrittenByOther(t, b)) => disk'[b][o] = wrote[t][b][o]]_vars

\* No transaction is running: each is unborn, ended or lost in a restart.
Quiet == \A t \in Txs : st[t] \in {"new", "done", "recovered", "gone"}

\* C8: after commit(), rollback() or recover() has returned, the transaction
\* has no lock and no pin; once no transaction is running, the lock table is
\* empty, no frame is pinned and every frame counts as available.
C8_EndReleasesAll ==
  \A t \in Txs : st[t] \in {"done", "recovered"} =>
    /\ cmLocks[t] = << >> /\ pins[t] = NoPins
    /\ Quiet => /\ \A b \in LockBlocks : locks[b] = 0
                /\ \A i \in Frames : frames[i].pins = 0
                /\ numAvailable = NumBuffers

\* The transactions the lock table counts on a block with lock value v.
HolderCount(v) == IF v < 0 THEN 1 ELSE v

\* t is inside ConcurrencyManager.release (called by commit and rollback).
Releasing(t) == st[t] \in {"rel", "unl"} /\ mode[t] \in {"commit", "rollback", "recover"}

\* C9: strict two-phase locking.  Outside its release a transaction keeps
\* every lock it has (a failed or repeated request included, S may only
\* become X), and a block's holder count in the lock table decreases only
\* in the unlock of that release (or when the process restarts).
C9_StrictTwoPhase ==
  [][/\ \A t \in Txs : (~Releasing(t) /\ crashes' = crashes) =>
          /\ Len(cmLocks'[t]) >= Len(cmLocks[t])
          /\ \A i \in DOMAIN cmLocks[t] :
                /\ cmLocks'[t][i].b = cmLocks[t][i].b
                /\ cmLocks[t][i].m = "X" => cmLocks'[t][i].m = "X"
     /\ \A b \in LockBlocks : HolderCount(locks'[b]) < HolderCount(locks[b]) =>
          \/ crashes' # crashes
          \/ \E t \in Txs : /\ Releasing(t) /\ st[t] = "unl" /\ st'[t] = "rel"
                             /\ cmLocks[t][relIdx[t]].b = b]_vars

\* A transaction whose upgrade to X failed still holds its S lock beside the
\* other reader's.
C9_Witness ==
  \E t \in Txs, u \in Txs, b \in LockBlocks :
    /\ t # u /\ st[t] = "aborted" /\ st[u] = "active"
    /\ Holding(t, b, "S") /\ Holding(u, b, "S") /\ locks[b] = 2

\* C10: a transaction that got LockAbort or BufferAbort and is rolled back:
\* rollback does not fail, its undo restores every location the transaction
\* wrote with logging, and when it has returned no lock or pin is left.
C10_AbortThenRollback ==
  \A t \in Txs : (aborted[t] /\ mode[t] = "rollback") =>
    /\ st[t] # "failed"
    /\ RolledBack(t) =>
         \A b \in Blocks, o \in Offsets : orig[t][b][o] # -1 => CurVal(b, o) = orig[t][b][o]
    /\ st[t] = "done" => cmLocks[t] = << >> /\ pins[t] = NoPins

\* A pin of thread c raises BufferAbortError in this step.
FailedPin(c) == st'[c] = "babort" /\ nops'[c] # nops[c]

\* C11: a pin raises BufferAbortError only after it has waited for a frame
\* (until then it waits, and takes the frame another thread unpins).
C11_PinWaitsForFrame ==
  [][\A c \in Txs : FailedPin(c) => st[c] = "bwait"]_vars

C13_AvailableIsUnpinned ==
  /\ numAvailable = Cardinality({i \in Frames : frames[i].pins = 0})
  /\ 0 <= numAvailable /\ numAvailable <= NumBuffers

\* C14: a value stored in a block's page and marked with set_modified is what
\* a reader of the block finds from then on, in the frame bound to the block
\* or, once the frame has been given to another block, in the block on disk
\* (t is the only transaction that has stored into the block).
C14_ModifiedSurvivesEviction ==
  \A t \in Txs, b \in Blocks, o \in Offsets :
    (wrote[t][b][o] # -1 /\ ~WrittenByOther(t, b)) => CurVal(b, o) = wrote[t][b][o]

\* C15: while an active transaction holds an S lock on a block, no other
\* transaction holds X on it, and the commit of a transaction does not fail.
C15_SharedBlocksExclusive ==
  /\ \A a \in Txs, b \in LockBlocks :
       (st[a] = "active" /\ Holding(a, b, "S")) => \A u \in Txs \ {a} : ~Holding(u, b, "X")
  /\ \A a \in Txs : mode[a] = "commit" => st[a] # "failed"

\* C16: while a transaction that holds a lock on the end-of-file sentinel
\* (it has called size or append) is active, no step of another thread
\* changes the number of blocks of the file.
C16_NoPhantom ==
  [][\A t \in Txs :
       (/\ st[t] = "active" /\ st'[t] = "active"
        /\ Holds(cmLocks[t], EOF)
        /\ nops'[t] = nops[t]) => fileLen' = fileLen]_vars

\* The log records of t's logged writes to offset o of block b.
WritesOf(t, b, o) ==
  {i \in DOMAIN log : IsSet(log[i]) /\ log[i].by = t /\ log[i].blk = b /\ log[i].off = o}

\* C17: at a location that transaction T wrote with logging and no other
\* transaction has stored into, a reader finds, once T has committed, the
\* value T wrote last, and once T has rolled back, the value the location
\* held before T's first write.
C17_ReadsCommittedValues ==
  \A t \in Txs, b \in Blocks, o \in Offsets :
    (st[t] = "done" /\ WritesOf(t, b, o) # {} /\ ~WrittenByOther(t, b)) =>
       /\ mode[t] = "commit" => CurVal(b, o) = wrote[t][b][o]
       /\ mode[t] = "rollback" =>
            CurVal(b, o) = log[CHOOSE i \in WritesOf(t, b, o) : \A j \in WritesOf(t, b, o) : i <= j].old

\* C18: the LSN that append returns is the number of records appended to the
\* log manager since it was created (by any thread, in any log block): the
\* n-th append returns n, and the LSN stamped on a frame is one of them.
C18_LsnDense ==
  /\ latestLsn = Len(log) - lsnBase
  /\ \A i \in Frames : frames[i].lsn <= latestLsn

\* Two transactions have appended, and the log has gone on to a new block.
C18_Witness ==
  /\ curStart > lsnBase
  /\ latestLsn > curStart - lsnBase + 1
  /\ \E t \in Txs, u \in Txs : t # u /\ st[t] = "active" /\ st[u] = "active"
  /\ \E i \in Frames : frames[i].lsn > 0

\* The records appended, newest first.
RECURSIVE NewestFirst(_)
NewestFirst(a) ==
  IF a = << >> THEN << >> ELSE <<a[Len(a)].bytes>> \o NewestFirst(SubSeq(a, 1, Len(a) - 1))

\* C19: a loop over the log manager's iterator ends with StopIteration and
\* has then returned every record appended before it started, once each,
\* newest first.
C19_IterNewestFirst ==
  liter.end # "no" => liter.end = "stop" /\ liter.out = NewestFirst(appended)

\* The offset of the newest record append put in block k (block_size if none).
NewestIn(k) ==
  LET c == {i \in DOMAIN appended : appended[i].blk = k}
  IN IF c = {} THEN LogBlockSize ELSE appended[CHOOSE i \in c : \A j \in c : j <= i].pos

\* C20: the boundary of the log page in memory is the offset of the newest
\* record of the current block and is at least 4; the boundary of every block
\* on disk is at least 4 and is the offset of a record of that block (of the
\* newest one, for a block before the current one) or block_size.
C20_BoundaryValid ==
  /\ Page_get_int(lm.page, 0) = NewestIn(lm.cur)
  /\ Page_get_int(lm.page, 0) >= 4
  /\ \A k \in 0 .. (Len(logFile) - 1) :
       LET bd == Page_get_int(logFile[k + 1], 0) IN
         /\ bd >= 4
         /\ k < lm.cur => bd = NewestIn(k)
         /\ bd = LogBlockSize \/ \E i \in DOMAIN appended : appended[i].blk = k /\ appended[i].pos = bd

\* C21: FileManager.append returns the block numbered with the length the file
\* had, leaves the file one block longer, and the new block reads as zeros
\* into any page; no two append calls return the same block number.
C21_AppendExtends ==
  /\ \A c \in FmClients :
       fmPc[c] = "ret" =>
         /\ fmNew[c] = fmPrev[c]
         /\ File_length(fmBytes) = fmPrev[c] + 1
         /\ File_read(fmBytes, fmNew[c], fmPage[c]) = ZeroBlock
  /\ \A i, j \in DOMAIN fmRet : i # j => fmRet[i] # fmRet[j]

\* A second append returns while the caller's page holds other bytes and an
\* earlier block of the file has been written.
C21_Witness ==
  \E c \in FmClients :
    /\ fmPc[c] = "ret"
    /\ fmPrev[c] >= 1
    /\ Len(fmRet) >= 1
    /\ fmPage[c] # ZeroBlock
    /\ \E i \in DOMAIN fmBytes : fmBytes[i] # 0

\* C22: a page keeps exactly block_size bytes whatever set_int, set_bytes and
\* set_string calls are made on it, and a write whose extent [off, end) is not
\* entirely inside the page raises and leaves the bytes as they were.
C22_PageKeepsSize ==
  /\ Len(pg) = PageSize
  /\ (/\ pgLast.op \in {"set_int", "set_bytes", "set_string"}
      /\ (pgLast.off < 0 \/ pgLast.end > pgLast.len))
     => (pgLast.err /\ ~pgLast.changed)

\* C23: get_int, get_bytes and get_string raise whenever a byte of the value
\* asked for (the integer, or the length and the bytes it announces) lies
\* outside the page.
C23_ReadOutsideFails ==
  (/\ pgLast.op \in {"get_int", "get_bytes", "get_string"}
   /\ (pgLast.off < 0 \/ pgLast.end > pgLast.len))
  => pgLast.err

\* The record page layer of the specification: a block holds
\* floor(block_size / slot_size) slots, each with its flag in its first bytes.
NumSlots(ss) == RpBlockSize \div ss
FlagOf(p, ss, k) == Try_get_int(p, k * ss).val
EmptyAfter(p, ss, slot) ==
  {k \in 0 .. (NumSlots(ss) - 1) : k > slot /\ FlagOf(p, ss, k) = FlagEmpty}
Least(S) == CHOOSE k \in S : \A j \in S : k <= j

\* C24: on a formatted record page insert_after(s) returns the smallest slot
\* above s whose flag is empty and marks it used, leaving every other byte,
\* and returns -1 without changing the page when there is none: a page takes
\* floor(block_size / slot_size) records, and a deleted slot is taken again.
C24_InsertAfterFirstEmpty ==
  rpLast.op = "insert_after" =>
    LET e == EmptyAfter(rpLast.before, ts.ss, rpLast.arg)
    IN IF e = {}
       THEN rpLast.ret = -1 /\ tbl[1] = rpLast.before
       ELSE /\ rpLast.ret = Least(e)
            /\ tbl[1] = Try_set_int(rpLast.before, Least(e) * ts.ss, FlagUsed).page

\* insert_after(-1) takes a slot other than the first, freed by a delete, and
\* the page is full again.
C24_Witness ==
  /\ rpLast.op = "insert_after"
  /\ rpLast.arg = -1
  /\ rpLast.ret >= 1
  /\ NumSlots(ts.ss) >= 2
  /\ \A k \in 0 .. (NumSlots(ts.ss) - 1) : FlagOf(tbl[1], ts.ss, k) = FlagUsed

\* C25: TableScan.insert ends on a valid slot of an existing block whose flag
\* is used, and appends at most one block, on which it then stops, whatever
\* the layout and the table.
C25_InsertFindsSlot ==
  tsCall.op = "insert" =>
    /\ tsCall.new <= 1
    /\ ~tsCall.busy =>
         /\ ts.slot >= 0
         /\ ts.blk < Len(tbl)
         /\ (ts.slot + 1) * ts.ss <= RpBlockSize
         /\ FlagOf(tbl[ts.blk + 1], ts.ss, ts.slot) = FlagUsed
         /\ tsCall.new = 1 => ts.blk = Len(tbl) - 1

\* A scan begun by before_first() on a table without deletes has returned
\* False; the records it stopped on are in increasing order of block and slot.
ScanComplete == ts.open /\ NumSlots(ts.ss) >= 1 /\ tsPure /\ tsScan.on /\ tsScan.done
Ceil(n, k) == (n + k - 1) \div k
Ordered(q) ==
  \A i, j \in DOMAIN q :
    i < j => (q[i][1] < q[j][1] \/ (q[i][1] = q[j][1] /\ q[i][2] < q[j][2]))

\* C26 as stated: after n inserts on a new table the scan stops on the n
\* records in the order of their insertion, blocks and slots increasing, and
\* the table has ceil(n / floor(block_size / slot_size)) blocks.
C26_ScanVisitsInserted ==
  ScanComplete =>
    /\ tsScan.seen = tsIns
    /\ Ordered(tsScan.seen)
    /\ Len(tbl) = Ceil(Len(tsIns), NumSlots(ts.ss))

\* C26, amended: the same, the table having one block when nothing was
\* inserted (the scan's constructor appends the first block).
C26_ScanVisitsInsertedFromOne ==
  ScanComplete =>
    /\ tsScan.seen = tsIns
    /\ Ordered(tsScan.seen)
    /\ Len(tbl) = Max(1, Ceil(Len(tsIns), NumSlots(ts.ss)))

\* A complete scan of a table of three blocks.
C26_Witness ==
  ScanComplete /\ Len(tbl) = MaxTableBlocks /\ Len(tsScan.seen) >= 3

\* The log holds a CHECKPOINT record and no update record after the last one.
QuietLog ==
  /\ \E i \in DOMAIN log : log[i].op = "CHECKPOINT"
  /\ \A i \in DOMAIN log :
       IsSet(log[i]) => \E j \in DOMAIN log : j > i /\ log[j].op = "CHECKPOINT"

\* A step of recover() called by t, from its call to its return.
RecoverStep(t) ==
  /\ mode'[t] = "recover"
  /\ st[t] \in {"active", "lwant", "lflush", "undo"}
  /\ crashes' = crashes
  /\ <<st[t], it[t], fin[t]>> # <<st'[t], it'[t], fin'[t]>>

\* The blocks in memory: what each frame holds of which block.
MemoryData == [i \in Frames |-> [blk |-> frames[i].blk, page |-> frames[i].page]]

\* C27: recover() on a log whose last CHECKPOINT is followed by no update
\* record changes no data block, on disk or in memory, and appends one
\* CHECKPOINT record and nothing else, when its loop is over; so a second
\* recover() after a first leaves the data as the first left them.
C27_RecoverIdempotent ==
  [][\A t \in Txs :
       (RecoverStep(t) /\ QuietLog) =>
         /\ disk' = disk
         /\ fileLen' = fileLen
         /\ MemoryData' = MemoryData
         /\ IF st[t] = "undo"
            THEN /\ st'[t] \in {"lwant", "lflush", "recovered"}
                 /\ Len(log') = Len(log) + 1
                 /\ SubSeq(log', 1, Len(log)) = log
                 /\ log'[Len(log')].op = "CHECKPOINT"
            ELSE log' = log]_vars

\* A second recover() has returned after a first, on data that a committed
\* transaction wrote.
C27_Witness ==
  \E t, u \in Txs :
    /\ t # u
    /\ st[t] = "recovered" /\ st[u] = "recovered"
    /\ Cardinality({i \in DOMAIN log : log[i].op = "CHECKPOINT"}) = 2
    /\ log[Len(log)].op = "CHECKPOINT"
    /\ log[Len(log) - 1].op = "START"
    /\ log[Len(log) - 2].op = "CHECKPOINT"
    /\ \E b \in Blocks, o \in Offsets : disk[b][o] # 0

\* C28: whatever the interleaving of the threads that append and flush, every
\* log record whose LSN is at most _lagest_saved_lsn is in the log file.
C28_SavedLsnOnDisk == lsnBase + lastSavedLsn <= diskLen

\* C29: under any interleaving of slock, xlock and unlock the value the lock
\* table stores for a block is the number of transactions that record S on
\* it, or -1 exactly when one records X, and no unlock fails on a missing
\* entry.
C29_LockValueCountsHolders ==
  /\ \A b \in LockBlocks :
       locks[b] = IF XHolders(b) # {} THEN -1 ELSE Cardinality(SHolders(b))
  /\ \A t \in Txs : st[t] # "failed"

\* C30: the unlock that brings the count of a block down to 1 reaches, with
\* its notify_all, every thread that waits in xlock for the other holders to
\* leave; and no thread is granted X by the timeout of its wait.
C30_UnlockWakesUpgrader ==
  [][\A c \in Txs :
       /\ (ltSt[c] = "xwait" /\ locks[LtBlock] > 1 /\ locks'[LtBlock] = 1) => ltWoken'[c]
       /\ (ltSt[c] = "xwait" /\ ltHeld'[c] = "X") => ~ltLate'[c]]_vars

\* C31: every slock or xlock request returns, granted or with LockAbortError,
\* also when the requesting threads wait for each other: no thread stays in
\* a wait of the lock table forever.
C31_LockRequestReturns == \A c \in Txs : LtWaiting(c) ~> ~LtWaiting(c)

\* Two threads that hold S on the block both asked for X; the wait of one of
\* them has ended with LockAbortError while the other still waits.
C31_Witness ==
  \E c \in Txs, d \in Txs :
    /\ c # d
    /\ ltSt[c] = "idle" /\ ltLate[c] /\ ltHeld[c] = "S"
    /\ ltSt[d] = "xwait" /\ ltHeld[d] = "S"
    /\ locks[LtBlock] = 2

\* t appends its COMMIT record in this step.
AppendsCommit(t) ==
  /\ Len(log') = Len(log) + 1
  /\ log'[Len(log')].op = "COMMIT" /\ log'[Len(log')].by = t

\* commit() of t returns in this step.
CommitReturns(t) == mode[t] = "commit" /\ st[t] = "rel" /\ st'[t] = "done"

\* C32: in commit() of T, when the COMMIT record is appended every block
\* that T wrote (and no other transaction wrote) holds T's last writes on
\* disk; and when commit returns, T's COMMIT record is in the log file.
C32_CommitOrder ==
  [][\A t \in Txs :
       /\ AppendsCommit(t) =>
            \A b \in Blocks, o \in Offsets :
              (wrote[t][b][o] # -1 /\ ~WrittenByOther(t, b)) => disk'[b][o] = wrote[t][b][o]
       /\ CommitReturns(t) =>
            \E i \in 1 .. (diskLen' - lsnBase') : log'[lsnBase' + i].op = "COMMIT" /\ log'[lsnBase' + i].by = t]_vars

\* The store of a logged set_int of t happens in this step; the frame it
\* stores into.
StoresLogged(t) == st[t] = "setw" /\ st'[t] = "active"
FrameOf(b) == FindExisting(Sys, b)

\* A set_int of t without logging happens in this step.
StoresUnlogged(t) ==
  /\ st[t] = "active" /\ st'[t] = "active" /\ nops'[t] # nops[t]
  /\ pins'[t] = pins[t] /\ frames' # frames

\* C33: a set_int with ok_to_log appends its record before the page changes,
\* the record carries the value that was at the location before the write,
\* and the frame is then stamped with the transaction's txnum and the LSN of
\* that record; a set_int without ok_to_log appends no record and leaves the
\* frame's LSN as it was.
C33_LoggedWriteStamped ==
  [][\A t \in Txs :
       /\ StoresLogged(t) =>
            LET r == log[LastBy(t)]
                i == FrameOf(r.blk)
            IN /\ log' = log
               /\ r.old = frames[i].page[r.off]
               /\ frames'[i].page[r.off] = r.new
               /\ frames'[i].txnum = txnum[t]
               /\ frames'[i].lsn = LastBy(t) - lsnBase
       /\ StoresUnlogged(t) =>
            /\ log' = log
            /\ \A i \in Frames : frames'[i].blk = frames[i].blk => frames'[i].lsn = frames[i].lsn]_vars


\* ------------------------------------------------------------------- C34
\* What a read of block b returns into a zeroed page.
DiskImage(b) == IF b < fileLen THEN disk[b] ELSE ZeroPage

\* C34: a frame that is clean (txnum = -1) and bound to a block holds the
\* disk image of that block, all zeros for a block beyond the end of the
\* file; so a frame given to such a block keeps no byte of its previous block.
C34_CleanFrameIsDiskImage ==
  \A i \in Frames :
     (frames[i].txnum = -1 /\ frames[i].blk # NoBlk)
        => frames[i].page = DiskImage(frames[i].blk)


\* ------------------------------------------------------------------- C35
UsedAfter(p, ss, slot) ==
  {k \in 0 .. (NumSlots(ss) - 1) : k > slot /\ FlagOf(p, ss, k) = FlagUsed}

\* C35: on a formatted record page, after any insert_after, delete, set_int
\* or set_string on valid slots, the flag of every valid slot is 0 or 1, and
\* next_after(s) is the smallest slot above s whose flag is 1, or -1.
C35_FlagsStayBinary ==
  ts.open =>
    /\ \A k \in 0 .. (NumSlots(ts.ss) - 1) :
          FlagOf(tbl[1], ts.ss, k) \in {FlagEmpty, FlagUsed}
    /\ \A s \in -1 .. (NumSlots(ts.ss) - 1) :
          RP_next_after(tbl[1], ts.ss, s) =
             IF UsedAfter(tbl[1], ts.ss, s) = {} THEN -1
             ELSE Least(UsedAfter(tbl[1], ts.ss, s))


\* ------------------------------------------------------------------- C40
\* The bytes of field f of a slot: indices of the page, from 1.
FieldRegion(ss, slot, f) ==
  LET a == RP_offset(ss, slot) + Layout_offset(f)
  IN (a + 1) .. (a + Layout_length_in_bytes(f))

\* C40: RecordPage.set_int and set_string on a valid slot change only bytes
\* inside the region of the field they write, for every value they accept.
C40_WriteStaysInField ==
  (rpLast.op \in {"set_int", "set_string"} /\ rpLast.ret = 0) =>
     LET f == IF rpLast.op = "set_int" THEN "A" ELSE "B"
     IN /\ Len(tbl[1]) = Len(rpLast.before)
        /\ \A i \in DOMAIN tbl[1] \ FieldRegion(ts.ss, rpLast.arg, f) :
              tbl[1][i] = rpLast.before[i]


\* ------------------------------------------------------------------- C36
\* The pins on block b that the pin lists of the transactions record.
RECURSIVE ListedPins(_, _)
ListedPins(b, T) ==
  IF T = {} THEN 0
  ELSE LET t == CHOOSE x \in T : TRUE IN pins[t][b] + ListedPins(b, T \ {t})

C37_PinnedFrameKeepsBlock ==
  [][\A i \in Frames : frames[i].pins > 0 => frames'[i].blk = frames[i].blk]_vars

\* The second frame has been given to a block beyond the end of the file
\* after its modified page was written to another block: the pin that did it
\* passed over the first frame, which is pinned (an unpinned first frame is
\* the one _choose_unpinned_buffer returns).
C37_Witness ==
  \E i \in Frames, j \in Frames :
     /\ i < j
     /\ frames[i].pins > 0 /\ frames[i].blk # NoBlk
     /\ frames[j].pins > 0 /\ frames[j].blk >= fileLen
     /\ frames[j].txnum = -1 /\ frames[j].page # ZeroPage
     /\ \E b \in Blocks : b < fileLen /\ b # frames[i].blk /\ disk[b] = frames[j].page


\* ------------------------------------------------------------------- C38
\* C38: at most one frame of the pool is bound to any given block, so the
\* threads that pin one block share one frame.
C38_OneFramePerBlock ==
  \A i \in Frames, j \in Frames :
     (i # j /\ frames[i].blk # NoBlk) => frames[i].blk # frames[j].blk

\* Two threads pin one block and share its frame, which counts both pins; the
\* other frame is bound to another block and is not pinned.
C38_Witness ==
  \E c \in Pair, d \in Pair, i \in Frames, j \in Frames :
     /\ c # d /\ i # j
     /\ frames[i].blk # NoBlk /\ frames[j].blk # NoBlk
     /\ pins[c][frames[i].blk] = 1 /\ pins[d][frames[i].blk] = 1
     /\ frames[i].pins = 2 /\ frames[j].pins = 0


\* ------------------------------------------------------------------- C39
\* A get_int of t on block b that returns: the lock is granted and the block
\* is in t's pin list.
ReadsBlock(t, b) == GetInt(t, b) /\ st'[t] = "active" /\ pins[t][b] > 0

\* The value at offset o of block b is one that u stored, u has neither
\* committed nor rolled back, and no other transaction has stored there (the
\* value is not the 0 the file began with).
DirtyFrom(u, b, o) ==
  /\ st[u] = "active"
  /\ wrote[u][b][o] \notin {-1, 0}
  /\ CurVal(b, o) = wrote[u][b][o]
  /\ \A w \in Txs \ {u} : wrote[w][b][o] = -1

\* C39: no dirty reads: a get_int of T never returns a value written by
\* another transaction that has not yet committed or rolled back.
C39_NoDirtyRead ==
  [][\A t \in Txs, b \in Blocks, o \in Offsets :
       ReadsBlock(t, b) => \A u \in Txs \ {t} : ~DirtyFrom(u, b, o)]_vars

====
